---- MODULE Spec2Model ----
(***************************************************************************)
(* A model of realtime/shake_event.py (class ShakeEvent): the expanding    *)
(* city search, the ranking of the affected cities, the grid.xml parser,   *)
(* the file-cached artifacts (csv, vrt, raster, contours) and the impact   *)
(* calculation.                                                            *)
(*                                                                         *)
(* Conventions.  Coordinates are integers.  An intensity is kept in tenths *)
(* (mmi10 = 51 is MMI 5.1), so that int(mmi) is mmi10 \div 10.  A python   *)
(* str is the sequence of its character codes, compared as python compares *)
(* str.  A field that may be None holds None (the empty tuple) or Some(v).  *)
(* A QgsRectangle is a mutable object: rect_heap maps an object reference  *)
(* to the rectangle's current value and the fields that hold a rectangle   *)
(* hold its reference.                                                     *)
(***************************************************************************)
EXTENDS Integers, Sequences, FiniteSets, TLC

VARIABLES
    dataset,              \* the features of the geonames layer, as it gives them
    rect_heap,            \* QgsRectangle objects: reference -> value
    search_boxes,         \* self.search_boxes
    extent_with_cities,   \* self.extent_with_cities (a reference)
    most_affected_city,   \* self.most_affected_city
    ret,                  \* what the last call returned, or that it raised
    document,             \* the grid.xml the last constructor call read
    instance,             \* the fields of the instance last under construction
    event,                \* the event the caller holds: None or Some(fields)
    raised,               \* the exception the last constructor call raised
    fs,                   \* the event's directory: file -> [at, from]
    clock,                \* the number of calls that wrote a file so far
    call,                 \* the last call and its outcome
    impact,               \* the six fields calculate_impacts assigns
    impacts_html,         \* the table written to impacts.html, or None
    clip,                 \* the last call of clip_layers and what it returned
    contour_layer,        \* the features of the contour layer last edited
    push                  \* the last push of an event to the REST server

searchVars == <<dataset, rect_heap, search_boxes, extent_with_cities,
                most_affected_city, ret>>

parseVars == <<document, instance, event, raised>>

fileVars == <<fs, clock, call, impact, impacts_html>>

layerVars == <<clip, contour_layer>>

vars == <<searchVars, parseVars, fileVars, layerVars, push>>

None == <<>>
Some(v) == <<v>>
\* the value of a field that is not None
The(field) == field[1]

(***************************************************************************)
(* Bounds of the model.                                                    *)
(***************************************************************************)
MaxRowCount == 6
\* calls that write files in one behaviour
MaxClock == 3

(***************************************************************************)
(* python values                                                           *)
(***************************************************************************)
RECURSIVE StrLess(_, _)
\* s < t for two python str
StrLess(s, t) ==
    IF t = <<>> THEN FALSE
    ELSE IF s = <<>> THEN TRUE
    ELSE IF Head(s) # Head(t) THEN Head(s) < Head(t)
    ELSE StrLess(Tail(s), Tail(t))

\* needle in hay, for two python str
StrContains(needle, hay) ==
    \E i \in 0..(Len(hay) - Len(needle)) :
        SubSeq(hay, i + 1, i + Len(needle)) = needle

(***************************************************************************)
(* QgsRectangle and QgsPoint                                               *)
(***************************************************************************)
Rect(x0, y0, x1, y1) ==
    \* the constructor normalises: min <= max on both axes
    [xmin |-> IF x0 <= x1 THEN x0 ELSE x1, ymin |-> IF y0 <= y1 THEN y0 ELSE y1,
     xmax |-> IF x0 <= x1 THEN x1 ELSE x0, ymax |-> IF y0 <= y1 THEN y1 ELSE y0]

\* self.zoomFactor = 1.25, as the ratio zoomFactorNum / zoomFactorDen
zoomFactorNum == 5
zoomFactorDen == 4

\* rectangle.scale(self.zoomFactor): about the centre, in place
ScaleRect(r) ==
    LET width   == r.xmax - r.xmin
        height  == r.ymax - r.ymin
        centerX == r.xmin + width \div 2
        centerY == r.ymin + height \div 2
        newW    == (width * zoomFactorNum) \div zoomFactorDen
        newH    == (height * zoomFactorNum) \div zoomFactorDen
    IN  [xmin |-> centerX - newW \div 2, ymin |-> centerY - newH \div 2,
         xmax |-> centerX + newW \div 2, ymax |-> centerY + newH \div 2]

\* the exact-intersection test of a point feature with the filter rectangle
Intersects(r, p) ==
    /\ r.xmin <= p.x /\ p.x <= r.xmax
    /\ r.ymin <= p.y /\ p.y <= r.ymax

\* point.sqrDist(other)
SqrDist(p, q) == (p.x - q.x) * (p.x - q.x) + (p.y - q.y) * (p.y - q.y)

\* point.azimuth(other) = atan2(dx, dy) in degrees.  The cities of the
\* catalogue lie on the eight compass directions from the epicenter, where
\* the angle is a whole number of degrees.
Azimuth(p, q) ==
    LET dx == q.x - p.x
        dy == q.y - p.y
    IN  CASE dx = 0 /\ dy >= 0       -> 0
          [] dx > 0 /\ dy = dx       -> 45
          [] dx > 0 /\ dy = 0        -> 90
          [] dx > 0 /\ dy = -dx      -> 135
          [] dx = 0 /\ dy < 0        -> 180
          [] dx < 0 /\ dy = dx       -> -135
          [] dx < 0 /\ dy = 0        -> -90
          [] dx < 0 /\ dy = -dx      -> -45

(***************************************************************************)
(* The event and the geonames layer                                        *)
(***************************************************************************)
\* x_minimum, y_minimum, x_maximum, y_maximum of the parsed grid
x_minimum == -1024
x_maximum == 1024
y_minimum == -1024
y_maximum == 1024

\* QgsPoint(self.longitude, self.latitude)
epicenter == [x |-> 0, y |-> 0]

\* the rectangle a fresh call of bounds_to_rectangle returns
bounds_to_rectangle == Rect(x_minimum, y_maximum, x_maximum, y_minimum)

Str_PPL  == <<80, 80, 76>>
Str_PPLA == <<80, 80, 76, 65>>
Str_ADM1 == <<65, 68, 77, 49>>

Feature(x, y, fcode, population, asciiname, lookup, mmi10) ==
    [pos |-> [x |-> x, y |-> y], fcode |-> fcode, population |-> population,
     asciiname |-> asciiname, lookup |-> lookup, mmi10 |-> mmi10]

\* The places the geonames layer may hold.  lookup is what the raster's
\* identify gives at the place: "value" (mmi10 tenths), "nodata" (the value
\* reads 'no data') or "none" (no result for band 1).
Catalogue ==
    << Feature( 100,    0, Str_PPL,  5000, <<66>>,     "value",  51),
       Feature(   0,  100, Str_PPL,  5000, <<66>>,     "value",  59),
       Feature(-100,    0, Str_PPLA, 9000, <<65>>,     "value",  51),
       Feature(   0, -100, Str_PPL,  5000, <<65, 98>>, "value",  62),
       Feature(   0,  200, Str_PPL,  5000, <<67>>,     "value",  51),
       Feature( 200,  200, Str_PPL,     0, <<69>>,     "value",  70),
       Feature( 100,  100, Str_ADM1, 8000, <<70>>,     "value",  70),
       Feature(-200,    0, Str_PPL,   300, <<71>>,     "nodata",  0),
       Feature(   0, -200, Str_PPL,   100, <<72>>,     "value", 130),
       Feature(1100,    0, Str_PPL,   700, <<73>>,     "none",    0),
       Feature(   0, 1500, Str_PPL,   800, <<74>>,     "nodata",  0),
       Feature(3000,    0, Str_PPL,   900, <<75>>,     "none",    0) >>

\* the features of a layer holding the places `ids`, in id order
RECURSIVE LayerOf(_, _)
LayerOf(ids, i) ==
    IF i > Len(Catalogue) THEN <<>>
    ELSE IF i \in ids
         THEN <<[fid |-> i] @@ Catalogue[i]>> \o LayerOf(ids, i + 1)
         ELSE LayerOf(ids, i + 1)

\* layer.getFeatures(request) with the filter rectangle r, exact intersect
GetFeatures(layer, r) == SelectSeq(layer, LAMBDA f : Intersects(r, f.pos))

(***************************************************************************)
(* romanize                                                                *)
(***************************************************************************)
roman_list ==
    << <<48>>, <<73>>, <<73, 73>>, <<73, 73, 73>>, <<73, 86>>, <<86>>,
       <<86, 73>>, <<86, 73, 73>>, <<86, 73, 73, 73>>, <<73, 88>>, <<88>>,
       <<88, 73>>, <<88, 73, 73>> >>

\* int(float(mmi_value)): truncation towards zero
IntOfMmi(mmi10) == IF mmi10 >= 0 THEN mmi10 \div 10 ELSE -((-mmi10) \div 10)

\* roman_list[i] raises IndexError, which romanize does not catch
RomanizeRaises(mmi10) ==
    LET i == IntOfMmi(mmi10)
        n == Len(roman_list)
    IN  ~ (-n <= i /\ i < n)

\* romanize(mmi_value) for a number whose index is in the list:
\* roman_list[int(float(mmi_value))].  A negative python index counts from
\* the end.
romanize(mmi10) ==
    LET i == IntOfMmi(mmi10)
        n == Len(roman_list)
    IN  IF 0 <= i THEN roman_list[i + 1] ELSE roman_list[n + i + 1]

(***************************************************************************)
(* grid.xml and parse_grid_xml                                             *)
(***************************************************************************)
\* An attribute value or a token of a data line: a number, a text that is
\* no number, or absent.
Num(v) == [kind |-> "num", v |-> v]
Text == [kind |-> "str", v |-> 0]
Absent == [kind |-> "absent", v |-> 0]

\* event_timestamp: well formed ("ok"), with a date that is no number
\* ("baddate"), with a time that is no number ("badtime"), or absent
Stamp(kind) ==
    [kind |-> kind, year |-> 2012, month |-> 8, day |-> 7, hour |-> 1,
     minute |-> 55, second |-> 12]

\* a line of grid_data with n tokens: LON LAT PGA PGV MMI
DataLine(lon, lat, mmi, n) ==
    SubSeq(<<Num(lon), Num(lat), Num(1), Num(2), Num(mmi)>>, 1, n)

\* the grid_field elements of a document: the names of the columns of a
\* data line, by index
StandardFields == <<"LON", "LAT", "PGA", "PGV", "MMI">>

\* the index the schema declares for the field of that name
ColumnOf(grid_field, name) ==
    CHOOSE k \in 1..Len(grid_field) : grid_field[k] = name

\* a data line of the standard columns, written in the columns of a schema
InColumnsOf(grid_field, tokens) ==
    [k \in 1..Len(grid_field) |-> tokens[ColumnOf(StandardFields, grid_field[k])]]

\* A complete document with the given magnitude (tenths) and nlon columns
BaseDocument(magnitude, nlon) ==
    [has_event |-> TRUE,
     magnitude |-> Num(magnitude), lon |-> Num(0), lat |-> Num(0),
     event_description |-> Text, depth |-> Num(11),
     event_timestamp |-> Stamp("ok"),
     has_grid_specification |-> TRUE,
     lon_min |-> Num(-1024), lon_max |-> Num(1024),
     lat_min |-> Num(-1024), lat_max |-> Num(1024),
     nlat |-> Num(1), nlon |-> Num(nlon),
     grid_field |-> StandardFields,
     has_grid_data |-> TRUE, has_text |-> TRUE,
     lines |-> [i \in 1..nlon |-> DataLine(i, 0, 50 + i, 5)]]

NumericAttributes ==
    {"magnitude", "lon", "lat", "depth", "lon_min", "lon_max", "lat_min",
     "lat_max", "nlat", "nlon"}

\* The ways a document is made defective: an element or attribute removed,
\* a numeric attribute made a text, a data line cut short.
Defects ==
    {<<"none", "">>, <<"element", "event">>,
     <<"element", "grid_specification">>, <<"element", "grid_data">>,
     <<"element", "text">>, <<"remove", "event_description">>,
     <<"remove", "event_timestamp">>, <<"stamp", "baddate">>,
     <<"stamp", "badtime">>, <<"line", "short">>}
    \cup {<<"remove", a>> : a \in NumericAttributes}
    \cup {<<"text", a>> : a \in NumericAttributes}

\* The ways the grid_data of a document differs from the standard one: a
\* data line cut short, a longitude or an intensity of a data line made a
\* text, the last data line left out, an empty line after the data lines,
\* the columns declared in another order.
SampleDefects ==
    {<<"none", "">>, <<"line", "short">>, <<"line", "lon">>,
     <<"line", "mmi">>, <<"line", "dropped">>, <<"line", "blank">>,
     <<"schema", "LAT first">>, <<"schema", "MMI third">>}

SetAttribute(doc, a, token) ==
    CASE a = "magnitude" -> [doc EXCEPT !.magnitude = token]
      [] a = "lon"       -> [doc EXCEPT !.lon = token]
      [] a = "lat"       -> [doc EXCEPT !.lat = token]
      [] a = "depth"     -> [doc EXCEPT !.depth = token]
      [] a = "lon_min"   -> [doc EXCEPT !.lon_min = token]
      [] a = "lon_max"   -> [doc EXCEPT !.lon_max = token]
      [] a = "lat_min"   -> [doc EXCEPT !.lat_min = token]
      [] a = "lat_max"   -> [doc EXCEPT !.lat_max = token]
      [] a = "nlat"      -> [doc EXCEPT !.nlat = token]
      [] a = "nlon"      -> [doc EXCEPT !.nlon = token]
      [] a = "event_description" -> [doc EXCEPT !.event_description = token]

\* the document with its columns declared, and written, in another order
WithSchema(doc, grid_field) ==
    [doc EXCEPT !.grid_field = grid_field,
                !.lines = [i \in 1..Len(doc.lines) |->
                              InColumnsOf(grid_field, doc.lines[i])]]

WithDefect(doc, defect) ==
    CASE defect[1] = "none" -> doc
      [] defect = <<"element", "event">> -> [doc EXCEPT !.has_event = FALSE]
      [] defect = <<"element", "grid_specification">> ->
             [doc EXCEPT !.has_grid_specification = FALSE]
      [] defect = <<"element", "grid_data">> ->
             [doc EXCEPT !.has_grid_data = FALSE]
      [] defect = <<"element", "text">> -> [doc EXCEPT !.has_text = FALSE]
      [] defect = <<"remove", "event_timestamp">> ->
             [doc EXCEPT !.event_timestamp = Stamp("absent")]
      [] defect[1] = "stamp" ->
             [doc EXCEPT !.event_timestamp = Stamp(defect[2])]
      [] defect = <<"line", "short">> ->
             [doc EXCEPT !.lines[Len(doc.lines)] = DataLine(9, 9, 9, 3)]
      [] defect = <<"line", "lon">> ->
             [doc EXCEPT !.lines[Len(doc.lines)][1] = Text]
      [] defect = <<"line", "mmi">> ->
             [doc EXCEPT !.lines[Len(doc.lines)][5] = Text]
      [] defect = <<"line", "dropped">> ->
             [doc EXCEPT !.lines = SubSeq(doc.lines, 1, Len(doc.lines) - 1)]
      [] defect = <<"line", "blank">> ->
             [doc EXCEPT !.lines = Append(doc.lines, <<>>)]
      [] defect = <<"schema", "LAT first">> ->
             WithSchema(doc, <<"LAT", "LON", "PGA", "PGV", "MMI">>)
      [] defect = <<"schema", "MMI third">> ->
             WithSchema(doc, <<"LON", "LAT", "MMI", "PGV", "PGA">>)
      [] defect[1] = "remove" /\ defect[2] # "event_timestamp" ->
             SetAttribute(doc, defect[2], Absent)
      [] defect[1] = "text" -> SetAttribute(doc, defect[2], Text)

\* the magnitudes (tenths) and column counts of the documents
Magnitudes == {51, 62}
ColumnCounts == {1, 2, 3}

Documents ==
    {WithDefect(BaseDocument(m, n), d) :
        m \in Magnitudes, n \in ColumnCounts, d \in Defects}

SampleDocuments ==
    {WithDefect(BaseDocument(m, n), d) :
        m \in Magnitudes, n \in ColumnCounts, d \in SampleDefects}

\* the fields __init__ sets to None before it calls parse_grid_xml
UnsetFields ==
    [magnitude |-> None, longitude |-> None, latitude |-> None,
     location |-> None, depth |-> None, year |-> None, month |-> None,
     day |-> None, hour |-> None, minute |-> None, second |-> None,
     timezone |-> None, x_minimum |-> None, x_maximum |-> None,
     y_minimum |-> None, y_maximum |-> None, rows |-> None,
     columns |-> None, mmi_data |-> None]

\* float(element.attributes[name].nodeValue) raises: KeyError when the
\* attribute is absent, ValueError when its value is no number
FloatRaises(token) == token.kind # "num"

\* the data lines read until one has no fifth token (IndexError):
\* mmi_data holds the tuples appended so far
RECURSIVE ReadLines(_, _)
ReadLines(lines, mmi_data) ==
    IF lines = <<>> THEN [mmi_data |-> mmi_data, raised |-> FALSE]
    ELSE LET tokens == Head(lines)
         IN  IF Len(tokens) = 0 THEN ReadLines(Tail(lines), mmi_data)
             ELSE IF Len(tokens) < 5
             THEN [mmi_data |-> mmi_data, raised |-> TRUE]
             ELSE ReadLines(Tail(lines),
                            Append(mmi_data, <<tokens[1], tokens[2], tokens[5]>>))

\* The statements of the try block, in order.  Each either raises or assigns.
ParseSteps ==
    <<"event", "magnitude", "longitude", "latitude", "location", "depth",
      "timestamp", "date", "time", "timezone", "grid_specification",
      "x_minimum", "x_maximum", "y_minimum", "y_maximum", "rows", "columns",
      "grid_data", "text", "mmi_data", "lines">>

StepRaises(doc, step) ==
    CASE step = "event"      -> ~ doc.has_event
      [] step = "magnitude"  -> FloatRaises(doc.magnitude)
      [] step = "longitude"  -> FloatRaises(doc.lon)
      [] step = "latitude"   -> FloatRaises(doc.lat)
      [] step = "location"   -> doc.event_description.kind = "absent"
      [] step = "depth"      -> FloatRaises(doc.depth)
      [] step = "timestamp"  -> doc.event_timestamp.kind = "absent"
      [] step = "date"       -> doc.event_timestamp.kind = "baddate"
      [] step = "time"       -> doc.event_timestamp.kind = "badtime"
      [] step = "timezone"   -> FALSE
      [] step = "grid_specification" -> ~ doc.has_grid_specification
      [] step = "x_minimum"  -> FloatRaises(doc.lon_min)
      [] step = "x_maximum"  -> FloatRaises(doc.lon_max)
      [] step = "y_minimum"  -> FloatRaises(doc.lat_min)
      [] step = "y_maximum"  -> FloatRaises(doc.lat_max)
      [] step = "rows"       -> FloatRaises(doc.nlat)
      [] step = "columns"    -> FloatRaises(doc.nlon)
      [] step = "grid_data"  -> ~ doc.has_grid_data
      [] step = "text"       -> ~ doc.has_text
      [] step = "mmi_data"   -> FALSE
      [] step = "lines"      -> ReadLines(doc.lines, <<>>).raised

\* the fields after a step (for "lines": also when the step raises midway)
StepAssigns(fields, doc, step) ==
    CASE step = "magnitude"  -> [fields EXCEPT !.magnitude = Some(doc.magnitude.v)]
      [] step = "longitude"  -> [fields EXCEPT !.longitude = Some(doc.lon.v)]
      [] step = "latitude"   -> [fields EXCEPT !.latitude = Some(doc.lat.v)]
      [] step = "location"   -> [fields EXCEPT !.location = Some(doc.event_description)]
      [] step = "depth"      -> [fields EXCEPT !.depth = Some(doc.depth.v)]
      [] step = "date"       ->
             [fields EXCEPT !.year = Some(doc.event_timestamp.year),
                            !.month = Some(doc.event_timestamp.month),
                            !.day = Some(doc.event_timestamp.day)]
      [] step = "time"       ->
             [fields EXCEPT !.hour = Some(doc.event_timestamp.hour),
                            !.minute = Some(doc.event_timestamp.minute),
                            !.second = Some(doc.event_timestamp.second)]
      [] step = "timezone"   -> [fields EXCEPT !.timezone = Some("WIB")]
      [] step = "x_minimum"  -> [fields EXCEPT !.x_minimum = Some(doc.lon_min.v)]
      [] step = "x_maximum"  -> [fields EXCEPT !.x_maximum = Some(doc.lon_max.v)]
      [] step = "y_minimum"  -> [fields EXCEPT !.y_minimum = Some(doc.lat_min.v)]
      [] step = "y_maximum"  -> [fields EXCEPT !.y_maximum = Some(doc.lat_max.v)]
      [] step = "rows"       -> [fields EXCEPT !.rows = Some(doc.nlat.v)]
      [] step = "columns"    -> [fields EXCEPT !.columns = Some(doc.nlon.v)]
      [] step = "mmi_data"   -> [fields EXCEPT !.mmi_data = Some(<<>>)]
      [] step = "lines"      ->
             [fields EXCEPT !.mmi_data = Some(ReadLines(doc.lines, <<>>).mmi_data)]
      [] OTHER -> fields

GridXmlParseError == "GridXmlParseError"
NoError == "None"

RECURSIVE RunSteps(_, _, _)
RunSteps(fields, doc, steps) ==
    IF steps = <<>> THEN [fields |-> fields, raised |-> NoError]
    ELSE IF StepRaises(doc, Head(steps))
    THEN [fields |-> IF Head(steps) = "lines"
                     THEN StepAssigns(fields, doc, "lines") ELSE fields,
          raised |-> GridXmlParseError]
    ELSE RunSteps(StepAssigns(fields, doc, Head(steps)), doc, Tail(steps))

\* parse_grid_xml with the except clause only logging: the error is swallowed
ParseGridXmlSwallowing(fields, doc) ==
    [fields |-> RunSteps(fields, doc, ParseSteps).fields, raised |-> NoError]

\* parse_grid_xml on an instance with the given fields: the fields after the
\* call, and the exception raised (every exception of the try block is
\* raised again as GridXmlParseError)
parse_grid_xml(fields, doc) == RunSteps(fields, doc, ParseSteps)

\* myShakeEvent = ShakeEvent(...) on the grid.xml doc: __init__ sets the
\* fields to None and parses.  When it raises, the caller gets no instance
\* and keeps the event it had.
ShakeEvent_init(doc) ==
    LET parsed == parse_grid_xml(UnsetFields, doc)
    IN  /\ document' = Some(doc)
        /\ instance' = parsed.fields
        /\ raised' = parsed.raised
        /\ event' = IF parsed.raised = NoError
                    THEN Some([fields |-> parsed.fields, grid |-> doc])
                    ELSE event

\* a line of the delimited text: the header, or the three values of a row
HeaderLine == <<"lon", "lat", "mmi">>

\* mmi_data_to_delimited_text(): 'lon,lat,mmi' and one line '%s,%s,%s' per
\* row of mmi_data, as the sequence of its lines
mmi_data_to_delimited_text(mmi_data) ==
    <<HeaderLine>> \o
    [i \in 1..Len(mmi_data) |->
        <<mmi_data[i][1], mmi_data[i][2], mmi_data[i][3]>>]

ParseInit ==
    /\ document = None
    /\ instance = UnsetFields
    /\ event = None
    /\ raised = NoError

(***************************************************************************)
(* The event's directory and the artifacts cached in it.  A file is absent *)
(* (at = 0) or carries the number of the call that wrote it last (at) and, *)
(* for an artifact derived from an intensity raster, the `at` of that      *)
(* raster when it was derived (from).  A handler is an operator from the   *)
(* directory before the call to the directory after it; `now` is the       *)
(* number of the running call.                                             *)
(***************************************************************************)
Algorithms == {"nearest", "invdist"}

PlainFiles ==
    {"mmi.csv", "mmi.csvt", "mmi.vrt", "mmi-points.shp", "mmi-points.qml",
     "mmi-cities.shp", "mmi-cities.qml",
     "city-search-boxes.shp", "city-search-boxes.qml",
     "affected-cities.html", "impacts.html",
     "%s-%s.pdf", "%s-%s.png", "%s-thumb-%s.png", "%s-metadata-%s.pickle",
     "composer-template.qpt", "project.qgs"}
AlgorithmFiles ==
    {"mmi-%s.tif", "mmi-%s.keywords", "mmi-%s.qml",
     "mmi-contours-%s.shp", "mmi-contours-%s.shx", "mmi-contours-%s.dbf",
     "mmi-contours-%s.prj", "mmi-contours-%s.qml",
     "impact-%s.tif", "impact-%s.keywords"}

File(name, algorithm) == <<name, algorithm>>
Plain(name) == <<name, "">>

Files ==
    {Plain(n) : n \in PlainFiles}
    \cup {File(n, a) : n \in AlgorithmFiles, a \in Algorithms}

AbsentFile == [at |-> 0, from |-> 0]
EmptyDirectory == [f \in Files |-> AbsentFile]

\* os.path.exists(path)
Exists(dir, f) == dir[f].at # 0

\* a file written by the running call
Write(dir, now, f) == [dir EXCEPT ![f] = [at |-> now, from |-> 0]]
\* a file derived by the running call from the raster written at `from`
Derive(dir, now, f, from) == [dir EXCEPT ![f] = [at |-> now, from |-> from]]
\* os.remove(path) of a file that is there
Remove(dir, f) == [dir EXCEPT ![f] = AbsentFile]

\* what a handler did: the directory it leaves, the exception it raised
FileOutcome(dir, error) == [dir |-> dir, raised |-> error]

\* mmi_data_to_delimited_file(force_flag)
DelimitedFile(dir, now, force_flag) ==
    IF Exists(dir, Plain("mmi.csv")) /\ ~ force_flag THEN dir
    ELSE Write(Write(dir, now, Plain("mmi.csv")), now, Plain("mmi.csvt"))

\* mmi_data_to_vrt(force_flag)
Vrt(dir, now, force_flag) ==
    IF Exists(dir, Plain("mmi.vrt")) /\ ~ force_flag THEN dir
    ELSE Write(DelimitedFile(dir, now, force_flag), now, Plain("mmi.vrt"))

\* An external command reading mmi.vrt produces its output when the command
\* succeeds (tool_ok) and the vrt and the csv it names are there; _run_command
\* uses call(), which returns the exit status and does not raise.
CommandProduces(dir, tool_ok) ==
    tool_ok /\ Exists(dir, Plain("mmi.vrt")) /\ Exists(dir, Plain("mmi.csv"))

\* mmi_data_to_shapefile(force_flag)
Shapefile(dir, now, force_flag, ogr_ok) ==
    IF Exists(dir, Plain("mmi-points.shp")) /\ ~ force_flag THEN dir
    ELSE LET d1 == Vrt(dir, now, force_flag)
             d2 == IF CommandProduces(d1, ogr_ok)
                   THEN Write(d1, now, Plain("mmi-points.shp")) ELSE d1
         IN  Write(d2, now, Plain("mmi-points.qml"))

\* Raster that ignores the cached tif: it regenerates on every call
RasterAlways(dir, now, force_flag, algorithm, gdal_ok) ==
    LET d1 == Vrt(dir, now, force_flag)
        d2 == IF CommandProduces(d1, gdal_ok)
              THEN Derive(d1, now, File("mmi-%s.tif", algorithm), now) ELSE d1
    IN  Write(Write(d2, now, File("mmi-%s.keywords", algorithm)),
              now, File("mmi-%s.qml", algorithm))

\* mmi_data_to_raster(force_flag, algorithm): the directory after the call.
\* The call returns the tif's path in every case.
Raster(dir, now, force_flag, algorithm, gdal_ok) ==
    IF Exists(dir, File("mmi-%s.tif", algorithm)) /\ ~ force_flag THEN dir
    ELSE LET d1 == Vrt(dir, now, force_flag)
             d2 == IF CommandProduces(d1, gdal_ok)
                   THEN Derive(d1, now, File("mmi-%s.tif", algorithm), now)
                   ELSE d1
         IN  Write(Write(d2, now, File("mmi-%s.keywords", algorithm)),
                   now, File("mmi-%s.qml", algorithm))

ContourCreationError == "ContourCreationError"

\* the files of a contour dataset in the order the handler removes them
ContourParts ==
    <<"mmi-contours-%s.shp", "mmi-contours-%s.shx", "mmi-contours-%s.dbf",
      "mmi-contours-%s.prj">>

\* RemoveParts removing the part of every algorithm's contour dataset
RECURSIVE RemovePartsOfAll(_, _, _, _)
RemovePartsOfAll(dir, algorithm, k, remove_fails) ==
    IF k > Len(ContourParts) THEN dir
    ELSE IF k = remove_fails \/ ~ Exists(dir, File(ContourParts[k], algorithm))
    THEN dir
    ELSE RemovePartsOfAll(
             [f \in DOMAIN dir |->
                 IF f[1] = ContourParts[k] THEN AbsentFile ELSE dir[f]],
             algorithm, k + 1, remove_fails)

\* The os.remove calls of mmi_data_to_contours from the k-th on: the first
\* that raises OSError (the remove_fails-th, or one whose file is not there)
\* ends them.  remove_fails = 0: no remove fails by itself.
RECURSIVE RemoveParts(_, _, _, _)
RemoveParts(dir, algorithm, k, remove_fails) ==
    IF k > Len(ContourParts) THEN dir
    ELSE IF k = remove_fails \/ ~ Exists(dir, File(ContourParts[k], algorithm))
    THEN dir
    ELSE RemoveParts(Remove(dir, File(ContourParts[k], algorithm)),
                     algorithm, k + 1, remove_fails)

\* the shp, shx and dbf of a contour layer, derived from the raster `from`
\* (0: the empty layer that CreateLayer makes)
ContourLayer(dir, now, algorithm, from) ==
    Derive(Derive(Derive(dir,
        now, File("mmi-contours-%s.shp", algorithm), from),
        now, File("mmi-contours-%s.shx", algorithm), from),
        now, File("mmi-contours-%s.dbf", algorithm), from)

\* Contours that returns the cached dataset even when forced
ContoursCached(dir, now, force_flag, algorithm, gdal_ok, remove_fails) ==
    IF Exists(dir, File("mmi-contours-%s.shp", algorithm))
    THEN FileOutcome(dir, NoError)
    ELSE LET d2 == Raster(dir, now, force_flag, algorithm, gdal_ok)
             tif == File("mmi-%s.tif", algorithm)
         IN  IF ~ Exists(d2, tif)
             THEN FileOutcome(ContourLayer(d2, now, algorithm, 0),
                              ContourCreationError)
             ELSE FileOutcome(
                      Write(Write(ContourLayer(d2, now, algorithm, d2[tif].at),
                          now, File("mmi-contours-%s.prj", algorithm)),
                          now, File("mmi-contours-%s.qml", algorithm)),
                      NoError)

\* mmi_data_to_contours(force_flag, algorithm).  CreateDataSource gives None
\* when the shp is still there; gdal.Open gives None when the tif is not
\* there and the contouring then raises, after CreateLayer made the layer.
Contours(dir, now, force_flag, algorithm, gdal_ok, remove_fails) ==
    LET shp == File("mmi-contours-%s.shp", algorithm)
        tif == File("mmi-%s.tif", algorithm)
    IN  IF Exists(dir, shp) /\ ~ force_flag THEN FileOutcome(dir, NoError)
        ELSE LET d1 == IF Exists(dir, shp)
                       THEN RemoveParts(dir, algorithm, 1, remove_fails)
                       ELSE dir
                 d2 == Raster(d1, now, force_flag, algorithm, gdal_ok)
             IN  IF Exists(d2, shp)
                 THEN FileOutcome(d2, ContourCreationError)
                 ELSE IF ~ Exists(d2, tif)
                 THEN FileOutcome(ContourLayer(d2, now, algorithm, 0),
                                  ContourCreationError)
                 ELSE FileOutcome(
                          Write(Write(
                              ContourLayer(d2, now, algorithm, d2[tif].at),
                              now, File("mmi-contours-%s.prj", algorithm)),
                              now, File("mmi-contours-%s.qml", algorithm)),
                          NoError)

(***************************************************************************)
(* local_city_features                                                     *)
(***************************************************************************)
attempts_limit == 5
minimum_city_count == 1

\* SearchLoop without the break: the loop goes on after a successful attempt
RECURSIVE SearchLoopNoBreak(_, _, _, _, _)
SearchLoopNoBreak(layer, rectangle, attempt, counts, request) ==
    IF attempt > attempts_limit
    THEN [counts |-> counts, rectangle |-> rectangle, request |-> request,
          found_flag |-> \E k \in 1..Len(counts) :
                            counts[k] >= minimum_city_count]
    ELSE LET count == Len(GetFeatures(layer, rectangle))
         IN  SearchLoopNoBreak(layer,
                 IF count < minimum_city_count THEN ScaleRect(rectangle)
                 ELSE rectangle,
                 attempt + 1, Append(counts, count), rectangle)

\* The for loop over range(attempts_limit), from the top of iteration
\* `attempt` (1-based).  rectangle is the current value of the one rectangle
\* object, counts the city_count of the records appended so far, request the
\* filter rectangle of the last request made (setFilterRect copies it).
RECURSIVE SearchLoop(_, _, _, _, _)
SearchLoop(layer, rectangle, attempt, counts, request) ==
    IF attempt > attempts_limit
    THEN [counts |-> counts, rectangle |-> rectangle, request |-> request,
          found_flag |-> FALSE]
    ELSE LET count == Len(GetFeatures(layer, rectangle))
         IN  IF count < minimum_city_count
             THEN SearchLoop(layer, ScaleRect(rectangle), attempt + 1,
                             Append(counts, count), rectangle)
             ELSE [counts |-> Append(counts, count), rectangle |-> rectangle,
                   request |-> rectangle, found_flag |-> TRUE]

\* LookupMmi skipping the place whose value reads 'no data'
LookupMmiSkipNoData(feature) ==
    CASE feature.lookup = "none"   -> [found |-> FALSE, mmi |-> 0]
      [] feature.lookup = "nodata" -> [found |-> FALSE, mmi |-> 0]
      [] feature.lookup = "value"  -> [found |-> TRUE, mmi |-> feature.mmi10]

\* The raster lookup of one feature: found is FALSE when identify gives no
\* result (the place is skipped), else mmi is the intensity in tenths, 0 when
\* the value reads 'no data'.
LookupMmi(feature) ==
    CASE feature.lookup = "none"   -> [found |-> FALSE, mmi |-> 0]
      [] feature.lookup = "nodata" -> [found |-> TRUE, mmi |-> 0]
      [] feature.lookup = "value"  -> [found |-> TRUE, mmi |-> feature.mmi10]

\* BuildCities without the test of the population
RECURSIVE BuildCitiesUnpopulated(_, _)
BuildCitiesUnpopulated(features, cities) ==
    IF features = <<>> THEN [cities |-> cities, raised |-> FALSE]
    ELSE LET feature == Head(features)
             lookup  == LookupMmi(feature)
             mmi     == lookup.mmi
         IN  IF ~ StrContains(Str_PPL, feature.fcode)
             THEN BuildCitiesUnpopulated(Tail(features), cities)
             ELSE IF ~ lookup.found
             THEN BuildCitiesUnpopulated(Tail(features), cities)
             ELSE IF RomanizeRaises(mmi)
             THEN [cities |-> cities, raised |-> TRUE]
             ELSE BuildCitiesUnpopulated(Tail(features),
                    Append(cities,
                      [id         |-> feature.fid,
                       name       |-> feature.asciiname,
                       population |-> feature.population,
                       mmi        |-> mmi,
                       dist_to    |-> SqrDist(feature.pos, epicenter),
                       dir_to     |-> Azimuth(feature.pos, epicenter),
                       dir_from   |-> Azimuth(epicenter, feature.pos),
                       roman      |-> romanize(mmi)]))

\* The second loop: one new feature per selected place that passes the
\* filters.  The result is the list built, and whether romanize raised.
RECURSIVE BuildCities(_, _)
BuildCities(features, cities) ==
    IF features = <<>> THEN [cities |-> cities, raised |-> FALSE]
    ELSE LET feature == Head(features)
             lookup  == LookupMmi(feature)
             mmi     == lookup.mmi
         IN  IF ~ StrContains(Str_PPL, feature.fcode)
             THEN BuildCities(Tail(features), cities)
             ELSE IF feature.population < 1
             THEN BuildCities(Tail(features), cities)
             ELSE IF ~ lookup.found
             THEN BuildCities(Tail(features), cities)
             ELSE IF RomanizeRaises(mmi)
             THEN [cities |-> cities, raised |-> TRUE]
             ELSE BuildCities(Tail(features),
                    Append(cities,
                      [id         |-> feature.fid,
                       name       |-> feature.asciiname,
                       population |-> feature.population,
                       mmi        |-> mmi,
                       dist_to    |-> SqrDist(feature.pos, epicenter),
                       dir_to     |-> Azimuth(feature.pos, epicenter),
                       dir_from   |-> Azimuth(epicenter, feature.pos),
                       roman      |-> romanize(mmi)]))

\* The whole of local_city_features on a layer: the records' counts, the final
\* value of the rectangle object, the cities and whether the call raised.
LocalCityFeatures(layer) ==
    LET search == SearchLoop(layer, bounds_to_rectangle, 1, <<>>,
                             bounds_to_rectangle)
        built  == BuildCities(GetFeatures(layer, search.request), <<>>)
    IN  [counts |-> search.counts, rectangle |-> search.rectangle,
         request |-> search.request, found_flag |-> search.found_flag,
         cities |-> built.cities, raised |-> built.raised]

(***************************************************************************)
(* sorted_impacted_cities                                                  *)
(***************************************************************************)
\* The dicts built from the memory layer: the memory provider numbers the
\* features it is given 1, 2, ... and that number is the dict's id.
CityDicts(cities) ==
    [i \in 1..Len(cities) |->
        [id |-> i, name |-> cities[i].name, mmi_int |-> IntOfMmi(cities[i].mmi),
         mmi |-> cities[i].mmi, population |-> cities[i].population,
         roman |-> cities[i].roman, dist_to |-> cities[i].dist_to,
         dir_to |-> cities[i].dir_to, dir_from |-> cities[i].dir_from]]

\* python's comparison of the key tuples of two dicts: key(c) < key(d)
KeyLess(c, d) ==
    IF -c.mmi_int # -d.mmi_int THEN -c.mmi_int < -d.mmi_int
    ELSE IF -c.population # -d.population THEN -c.population < -d.population
    ELSE IF c.name # d.name THEN StrLess(c.name, d.name)
    ELSE IF c.mmi # d.mmi THEN c.mmi < d.mmi
    ELSE IF c.roman # d.roman THEN StrLess(c.roman, d.roman)
    ELSE IF c.dist_to # d.dist_to THEN c.dist_to < d.dist_to
    ELSE IF c.dir_to # d.dir_to THEN c.dir_to < d.dir_to
    ELSE IF c.dir_from # d.dir_from THEN c.dir_from < d.dir_from
    ELSE c.id < d.id

\* sorted(cities, key=...): a stable sort, here by insertion
RECURSIVE InsertSorted(_, _)
InsertSorted(sortedSeq, c) ==
    IF sortedSeq = <<>> THEN <<c>>
    ELSE IF KeyLess(c, Head(sortedSeq)) THEN <<c>> \o sortedSeq
    ELSE <<Head(sortedSeq)>> \o InsertSorted(Tail(sortedSeq), c)

\* Sorted leaving the cities in the order of the memory layer
SortedAsGiven(cities) == cities

RECURSIVE Sorted(_)
Sorted(cities) ==
    IF cities = <<>> THEN <<>>
    ELSE InsertSorted(Sorted(SubSeq(cities, 1, Len(cities) - 1)),
                      cities[Len(cities)])

\* sorted_cities[0: row_count] for row_count >= 0
Slice(s, row_count) ==
    SubSeq(s, 1, IF row_count < Len(s) THEN row_count ELSE Len(s))

\* Rank taking the most affected city after the slice
RankAfterSlice(sorted_cities, row_count) ==
    LET returned == IF Len(sorted_cities) > 5
                    THEN Slice(sorted_cities, row_count) ELSE sorted_cities
    IN  [most_affected_city |-> IF Len(returned) > 0 THEN Some(returned[1])
                                ELSE None,
         returned |-> returned]

\* The tail of sorted_impacted_cities, from the sorted list on: the most
\* affected city and the list returned.
Rank(sorted_cities, row_count) ==
    [most_affected_city |-> IF Len(sorted_cities) > 0
                            THEN Some(sorted_cities[1]) ELSE None,
     returned |-> IF Len(sorted_cities) > 5 THEN Slice(sorted_cities, row_count)
                  ELSE sorted_cities]

(***************************************************************************)
(* The handlers.  A handler is an operator from the event before the call  *)
(* (its fields and its directory, as one record) to its outcome: the event *)
(* after the call, the exception raised and the value returned.            *)
(***************************************************************************)
World ==
    [fs |-> fs, rect_heap |-> rect_heap, search_boxes |-> search_boxes,
     extent_with_cities |-> extent_with_cities,
     most_affected_city |-> most_affected_city,
     impact |-> impact, impacts_html |-> impacts_html]

Outcome(w, error, value) == [w |-> w, raised |-> error, value |-> value]

\* A statement's value is computed once and the statements after it read it
Bind(value, Rest(_)) == CHOOSE result \in {Rest(v) : v \in {value}} : TRUE

InvalidLayerError == "InvalidLayerError"
IndexError == "IndexError"
ShapefileCreationError == "ShapefileCreationError"

\* AssignSearch keeping the records of the successful attempts only
AssignSearchSuccessful(w, result) ==
    [w EXCEPT !.rect_heap = <<result.rectangle>>,
              !.search_boxes =
                  Some(SelectSeq(
                      [i \in 1..Len(result.counts) |->
                          [city_count |-> result.counts[i], geometry |-> 1]],
                      LAMBDA record :
                          record.city_count >= minimum_city_count)),
              !.extent_with_cities = Some(1)]

\* The assignments local_city_features makes to the event: every record holds
\* the reference of the one rectangle object (reference 1), whose value is
\* the rectangle after the last scaling.
AssignSearch(w, result) ==
    [w EXCEPT !.rect_heap = <<result.rectangle>>,
              !.search_boxes =
                  Some([i \in 1..Len(result.counts) |->
                           [city_count |-> result.counts[i], geometry |-> 1]]),
              !.extent_with_cities = Some(1)]

SpatialSearchExhausted == "SpatialSearchExhausted"

\* Call_local_city_features raising when the list of cities is empty
Call_local_city_features_strict(w, now, gdal_ok) ==
    Bind([w EXCEPT !.fs = Raster(w.fs, now, FALSE, "nearest", gdal_ok)],
         LAMBDA w1 :
    IF ~ Exists(w1.fs, File("mmi-%s.tif", "nearest"))
    THEN Outcome(w1, InvalidLayerError, <<>>)
    ELSE Bind(LocalCityFeatures(dataset), LAMBDA result :
         IF result.raised
         THEN Outcome(AssignSearch(w1, result), IndexError, <<>>)
         ELSE IF result.cities = <<>>
         THEN Outcome(AssignSearch(w1, result), SpatialSearchExhausted, <<>>)
         ELSE Outcome(AssignSearch(w1, result), NoError, result.cities)))

\* local_city_features(): the raster is fetched without force and must load
Call_local_city_features(w, now, gdal_ok) ==
    Bind([w EXCEPT !.fs = Raster(w.fs, now, FALSE, "nearest", gdal_ok)],
         LAMBDA w1 :
    IF ~ Exists(w1.fs, File("mmi-%s.tif", "nearest"))
    THEN Outcome(w1, InvalidLayerError, <<>>)
    ELSE Bind(LocalCityFeatures(dataset), LAMBDA result :
         IF result.raised
         THEN Outcome(AssignSearch(w1, result), IndexError, <<>>)
         ELSE Outcome(AssignSearch(w1, result), NoError, result.cities)))

\* sorted_impacted_cities(row_count)
Call_sorted_impacted_cities(w, now, row_count, gdal_ok) ==
    Bind(Call_local_city_features(w, now, gdal_ok), LAMBDA found :
    IF found.raised # NoError THEN found
    ELSE Bind(Rank(Sorted(CityDicts(found.value)), row_count), LAMBDA rank :
         Outcome([found.w EXCEPT
                      !.most_affected_city = rank.most_affected_city],
                 NoError, rank.returned)))

\* memory_layer_to_shapefile(file_name, memory_layer, force_flag) for a layer
\* of `count` features computed from the raster `from`; env tells whether
\* the old shapefile can be removed and the new one written
MemoryLayerToShapefile(dir, now, shp, qml, count, force_flag, from, env) ==
    IF count < 1 THEN FileOutcome(dir, ShapefileCreationError)
    ELSE IF Exists(dir, shp) /\ ~ force_flag THEN FileOutcome(dir, NoError)
    ELSE LET d1 == IF Exists(dir, shp) /\ env.remove_ok THEN Remove(dir, shp)
                   ELSE dir
         IN  IF ~ env.write_ok THEN FileOutcome(d1, ShapefileCreationError)
             ELSE FileOutcome(Write(Derive(d1, now, shp, from), now, qml),
                              NoError)

\* cities_to_shapefile(force_flag)
Call_cities_to_shapefile(w, now, force_flag, env) ==
    Bind(Call_local_city_features(w, now, env.gdal_ok), LAMBDA found :
    IF found.raised # NoError THEN found
    ELSE Bind(MemoryLayerToShapefile(
                  found.w.fs, now, Plain("mmi-cities.shp"),
                  Plain("mmi-cities.qml"), Len(found.value), force_flag,
                  found.w.fs[File("mmi-%s.tif", "nearest")].at, env),
              LAMBDA saved :
         Outcome([found.w EXCEPT !.fs = saved.dir], saved.raised, <<>>)))

\* city_search_boxes_to_shapefile(force_flag): the memory layer is built
\* without force, so the search runs only when search_boxes is None
Call_city_search_boxes_to_shapefile(w, now, force_flag, env) ==
    Bind(IF w.search_boxes = None
         THEN Call_local_city_features(w, now, env.gdal_ok)
         ELSE Outcome(w, NoError, <<>>), LAMBDA found :
    IF found.raised # NoError THEN found
    ELSE Bind(MemoryLayerToShapefile(
                  found.w.fs, now, Plain("city-search-boxes.shp"),
                  Plain("city-search-boxes.qml"),
                  Len(The(found.w.search_boxes)), force_flag, 0, env),
              LAMBDA saved :
         Outcome([found.w EXCEPT !.fs = saved.dir], saved.raised, <<>>)))

\* impacted_cities_table(row_count = 5)
Call_impacted_cities_table(w, now, gdal_ok) ==
    Bind(Call_sorted_impacted_cities(w, now, 5, gdal_ok), LAMBDA ranked :
    IF ranked.raised # NoError THEN ranked
    ELSE Outcome(
             [ranked.w EXCEPT !.fs =
                 Derive(ranked.w.fs, now, Plain("affected-cities.html"),
                        ranked.w.fs[File("mmi-%s.tif", "nearest")].at)],
             NoError, <<>>))

(***************************************************************************)
(* calculate_impacts and impact_table                                      *)
(***************************************************************************)
\* for mmi in range(2, 10)
Bands == 2..9

ResultKeys ==
    {"fatalites_per_mmi", "exposed_per_mmi", "displaced_per_mmi",
     "total_fatalities"}
PerBandKeys == {"fatalites_per_mmi", "exposed_per_mmi", "displaced_per_mmi"}

\* a dict of counts per band
PerBand(unit, bands) == [mmi \in bands |-> unit * mmi]

\* result.keywords of an impact layer: a key that is not in the keywords
\* holds None
CompleteResult(scale) ==
    [fatalites_per_mmi |-> Some(PerBand(3 * scale, Bands)),
     exposed_per_mmi   |-> Some(PerBand(650 * scale, Bands)),
     displaced_per_mmi |-> Some(PerBand(40 * scale, Bands)),
     total_fatalities  |-> Some(132 * scale)]

WithoutKey(result, key) == [result EXCEPT ![key] = None]

WithoutBand(result, key, band) ==
    [result EXCEPT ![key] =
        Some([mmi \in (DOMAIN The(result[key])) \ {band} |->
                 The(result[key])[mmi]])]

Scales == {1, 2}
MissingBands == {2, 9}

Results ==
    {CompleteResult(scale) : scale \in Scales}
    \cup {WithoutKey(CompleteResult(1), key) : key \in ResultKeys}
    \cup {WithoutBand(CompleteResult(1), key, band) :
              key \in PerBandKeys, band \in MissingBands}

KeyError == "KeyError"
FileNotFoundError == "FileNotFoundError"
ClipError == "Exception"
IOError == "IOError"

\* Reading of the four keys that puts an empty dict or 0 for a missing key
ResultKeywordsDefaulted(result) ==
    [raised |-> NoError,
     fatalities |-> IF result.fatalites_per_mmi = None THEN PerBand(0, {})
                    ELSE The(result.fatalites_per_mmi),
     affected   |-> IF result.exposed_per_mmi = None THEN PerBand(0, {})
                    ELSE The(result.exposed_per_mmi),
     displaced  |-> IF result.displaced_per_mmi = None THEN PerBand(0, {})
                    ELSE The(result.displaced_per_mmi),
     total_fatalities |-> IF result.total_fatalities = None THEN 0
                          ELSE The(result.total_fatalities)]

\* The try block of calculate_impacts: result.keywords[key] for the four
\* keys; a KeyError is logged and raised again.
ResultKeywords(result) ==
    IF \E key \in ResultKeys : result[key] = None
    THEN [raised |-> KeyError, fatalities |-> PerBand(0, {}),
          affected |-> PerBand(0, {}), displaced |-> PerBand(0, {}),
          total_fatalities |-> 0]
    ELSE [raised |-> NoError,
          fatalities |-> The(result.fatalites_per_mmi),
          affected   |-> The(result.exposed_per_mmi),
          displaced  |-> The(result.displaced_per_mmi),
          total_fatalities |-> The(result.total_fatalities)]

\* round(x / 1000) of a count x >= 0: python 2 rounds half away from zero
RoundThousands(x) == (x + 500) \div 1000

\* a cell of the affected row: '%i' % round(count / 1000), or the float 0.00
\* that the table puts for a band that is not in affected_counts
CountCell(n) == [default |-> FALSE, text |-> n]
DefaultCell == [default |-> TRUE, text |-> 0]

\* impact_table(): the header and the affected row of impacts.html
ImpactTable(affected_counts) ==
    [header |-> [mmi \in Bands |-> romanize(10 * mmi)],
     affected_row |->
        [mmi \in Bands |->
            IF mmi \in DOMAIN affected_counts
            THEN CountCell(RoundThousands(affected_counts[mmi]))
            ELSE DefaultCell]]

\* the six fields calculate_impacts assigns, as __init__ leaves them
NoImpact ==
    [impact_file |-> None, impact_keywords_file |-> None,
     fatality_counts |-> None, fatality_total |-> Some(0),
     displaced_counts |-> None, affected_counts |-> None]

\* calculate_impacts(population_raster_path, force_flag, algorithm) where
\* the fatality function gives env.result.  The clipping raises when the
\* hazard raster is not there.  The six fields are assigned before
\* impact_table() runs; write_html_table raises IOError when impacts.html
\* cannot be opened for writing (env.impacts_html_ok is FALSE).
Call_calculate_impacts(w, now, force_flag, algorithm, env) ==
    Bind(Raster(w.fs, now, force_flag, algorithm, env.gdal_ok), LAMBDA d1 :
    LET tif  == File("mmi-%s.tif", algorithm)
        keys == ResultKeywords(env.result)
        d2   == Derive(Derive(d1,
                    now, File("impact-%s.tif", algorithm), d1[tif].at),
                    now, File("impact-%s.keywords", algorithm), d1[tif].at)
        d3   == Derive(d2, now, Plain("impacts.html"), d1[tif].at)
    IN  IF ~ env.population_found THEN Outcome(w, FileNotFoundError, <<>>)
        ELSE IF ~ Exists(d1, tif)
        THEN Outcome([w EXCEPT !.fs = d1], ClipError, <<>>)
        ELSE IF keys.raised # NoError
        THEN Outcome([w EXCEPT !.fs = d1], keys.raised, <<>>)
        ELSE Bind([impact_file |->
                       Some(File("impact-%s.tif", algorithm)),
                   impact_keywords_file |->
                       Some(File("impact-%s.keywords", algorithm)),
                   fatality_counts |-> Some(keys.fatalities),
                   fatality_total |-> Some(keys.total_fatalities),
                   displaced_counts |-> Some(keys.displaced),
                   affected_counts |-> Some(keys.affected)], LAMBDA fields :
             IF ~ env.impacts_html_ok
             THEN Outcome([w EXCEPT !.fs = d2, !.impact = fields],
                          IOError, <<>>)
             ELSE Outcome(
                      [w EXCEPT
                          !.fs = d3,
                          !.impact = fields,
                          !.impacts_html = Some(ImpactTable(keys.affected))],
                      NoError, <<>>)))

(***************************************************************************)
(* renderMap                                                               *)
(***************************************************************************)
MapComposerError == "MapComposerError"

\* What a pass meets outside the event: whether ogr2ogr and gdal_grid
\* succeed, which os.remove of the old contour files fails (0: none),
\* whether an old shapefile can be removed and a new one written, whether
\* the population raster is found, the result of the fatality function and
\* whether the composer template loads.
AllGoesWell ==
    [ogr_ok |-> TRUE, gdal_ok |-> TRUE, remove_fails |-> 0,
     remove_ok |-> TRUE, write_ok |-> TRUE, population_found |-> TRUE,
     result |-> CompleteResult(1), compose_ok |-> TRUE,
     impacts_html_ok |-> TRUE]

\* the passes in which at most one thing differs from AllGoesWell
Environments ==
    {AllGoesWell}
    \cup {[AllGoesWell EXCEPT ![flag] = FALSE] :
              flag \in {"ogr_ok", "gdal_ok", "remove_ok", "write_ok",
                        "population_found", "compose_ok"}}
    \cup {[AllGoesWell EXCEPT !.remove_fails = k] : k \in 1..Len(ContourParts)}
    \cup {[AllGoesWell EXCEPT !.result = result] : result \in Results}

\* The while loop of eventDict over (myLowerLimit, myUpperLimit):
\* while myFatalitiesCount > myUpperLimit the lower limit takes the upper
\* limit and the upper limit becomes math.pow(myUpperLimit, 2).
RECURSIVE FatalitiesRangeLoop(_, _, _)
FatalitiesRangeLoop(myFatalitiesCount, myLowerLimit, myUpperLimit) ==
    IF myFatalitiesCount > myUpperLimit
    THEN FatalitiesRangeLoop(myFatalitiesCount, myUpperLimit,
                             myUpperLimit * myUpperLimit)
    ELSE <<myLowerLimit, myUpperLimit>>

\* myFatalitiesRange: the two limits that '%i - %i' prints
FatalitiesRange(myFatalitiesCount) == FatalitiesRangeLoop(myFatalitiesCount, 0, 100)

\* round(a / b) for b > 0: python 2 rounds a half away from zero
RoundQuotient(a, b) ==
    IF a >= 0 THEN (2 * a + b) \div (2 * b) ELSE -((2 * (-a) + b) \div (2 * b))

myDirectionList ==
    <<"N", "NNE", "NE", "ENE", "E", "ESE", "SE", "SSE", "S", "SSW", "SW",
      "WSW", "W", "WNW", "NW", "NNW">>

\* bearingToCardinal(theBearing) for a bearing in whole degrees: the
\* interval is 360. / 16 = 22.5 degrees, the index int(round(bearing / 22.5))
\* modulo 16
bearingToCardinal(theBearing) ==
    myDirectionList[(RoundQuotient(2 * theBearing, 45) % 16) + 1]

\* self.tr('n/a')
Str_na == <<110, 47, 97>>

\* the entries of the dict of eventDict that describe the fatalities and the
\* most affected city, for the city or None that eventDict took them from
DictOf(fatality_total, city) ==
    [fatalities_range |-> FatalitiesRange(fatality_total),
     fatalities_count |-> fatality_total,
     distance   |-> IF city = None THEN 0 ELSE The(city).dist_to,
     direction  |-> IF city = None THEN 0 ELSE The(city).dir_to,
     bearing    |-> IF city = None THEN "n/a"
                    ELSE bearingToCardinal(The(city).dir_to),
     place_name |-> IF city = None THEN Str_na ELSE The(city).name]

\* eventDict().  When there is no most affected city it runs the ranking,
\* which may set one, and takes 0 and 'n/a' for the dict all the same; the
\* one change it makes to the event is that ranking.
Call_eventDict(w, now, gdal_ok) ==
    IF w.most_affected_city = None
    THEN Bind(Call_sorted_impacted_cities(w, now, 5, gdal_ok), LAMBDA ranked :
         IF ranked.raised # NoError
         THEN Outcome(ranked.w, ranked.raised, None)
         ELSE Outcome(ranked.w, NoError,
                      Some(DictOf(The(w.impact.fatality_total), None))))
    ELSE Outcome(w, NoError,
                 Some(DictOf(The(w.impact.fatality_total),
                             w.most_affected_city)))

\* The try block of renderMap: the cities shapefile, the search boxes
\* shapefile and the cities table; an exception ends the block and is logged.
CitiesBlock(w, now, force_flag, env) ==
    Bind(Call_cities_to_shapefile(w, now, force_flag, env), LAMBDA cities :
    IF cities.raised # NoError THEN cities.w
    ELSE Bind(Call_city_search_boxes_to_shapefile(cities.w, now, force_flag,
                                                  env), LAMBDA boxes :
         IF boxes.raised # NoError THEN boxes.w
         ELSE Call_impacted_cities_table(boxes.w, now, env.gdal_ok).w))

\* the files the composition writes, from the raster the pass shows
Compose(dir, now, from) ==
    Derive(Derive(Derive(Write(Write(dir,
        now, Plain("composer-template.qpt")),
        now, Plain("project.qgs")),
        now, Plain("%s-%s.pdf"), from),
        now, Plain("%s-%s.png"), from),
        now, Plain("%s-thumb-%s.png"), from)

\* renderMap(theForceFlag).  The value is the path returned: the pdf's when
\* the pass is short-circuited, None when the map is rendered (the method
\* ends without a return statement).
Call_renderMap(w, now, theForceFlag, env) ==
    IF /\ ~ theForceFlag
       /\ Exists(w.fs, Plain("%s-%s.pdf"))
       /\ Exists(w.fs, Plain("%s-%s.png"))
       /\ Exists(w.fs, Plain("%s-thumb-%s.png"))
    THEN Outcome(w, NoError, Some(Plain("%s-%s.pdf")))
    ELSE
    Bind(Shapefile(w.fs, now, theForceFlag, env.ogr_ok), LAMBDA shape :
    Bind(Contours(shape, now, theForceFlag, "nearest", env.gdal_ok,
                  env.remove_fails), LAMBDA contours :
    IF contours.raised # NoError
    THEN Outcome([w EXCEPT !.fs = contours.dir], contours.raised, None)
    ELSE
    Bind(CitiesBlock([w EXCEPT !.fs = contours.dir], now, theForceFlag, env),
         LAMBDA cities :
    Bind(Call_calculate_impacts(cities, now, FALSE, "nearest", env),
         LAMBDA impacts :
    IF impacts.raised # NoError
    THEN Outcome(impacts.w, impacts.raised, None)
    ELSE
    Bind(Call_eventDict(impacts.w, now, env.gdal_ok), LAMBDA dict :
    IF dict.raised # NoError
    THEN Outcome(dict.w, dict.raised, None)
    ELSE
    Bind([dict.w EXCEPT !.fs =
             Write(dict.w.fs, now, Plain("%s-metadata-%s.pickle"))],
         LAMBDA pickled :
    IF ~ env.compose_ok
    THEN Outcome(pickled, MapComposerError, None)
    ELSE Outcome(
             [pickled EXCEPT !.fs =
                 Compose(pickled.fs, now,
                         pickled.fs[File("mmi-%s.tif", "nearest")].at)],
             NoError, None)))))))

(***************************************************************************)
(* clip_layers.  A raster layer is its extent and its WGS84 cell size, in   *)
(* units of 1e-8 degree.                                                   *)
(***************************************************************************)
RasterLayer(extent, cell_size) == [extent |-> extent, cell_size |-> cell_size]

\* extent_to_geoarray(extent, crs) of a layer in EPSG:4326: the array
\* [xmin, ymin, xmax, ymax]
extent_to_geoarray(extent) ==
    <<extent.xmin, extent.ymin, extent.xmax, extent.ymax>>

\* get_wgs84_resolution(layer)
get_wgs84_resolution(layer) == layer.cell_size

Abs(x) == IF x < 0 THEN -x ELSE x

\* numpy.allclose with exact comparison, no tolerance
AllCloseExactly(a, b) == a = b

\* numpy.allclose(a, b) of two numbers, with numpy's defaults rtol = 1e-5 and
\* atol = 1e-8 (one unit): abs(a - b) <= atol + rtol * abs(b).  The left side
\* is a whole number of units, so the right side is compared rounded down.
AllClose(a, b) == Abs(a - b) <= 1 + Abs(b) \div 100000

\* clip_layer(layer, extent, cell_size, extra_keywords) of the clipper: the
\* layer cut and padded to the extent and resampled to the cell size
clip_layer(layer, extent, cell_size, extra_keywords) ==
    [source |-> layer, extent |-> extent, cell_size |-> cell_size,
     extra_keywords |-> extra_keywords]

\* extra_exposure_keywords: the key 'resolution' is there or not
NoKeywords == [resolution |-> None]

\* ClipLayers clipping each layer to its own extent
ClipLayersEachToItsOwn(hazard_layer, exposure_layer) ==
    LET hazard_geo_cell_size   == get_wgs84_resolution(hazard_layer)
        exposure_geo_cell_size == get_wgs84_resolution(exposure_layer)
        cell_size == IF hazard_geo_cell_size < exposure_geo_cell_size
                     THEN hazard_geo_cell_size ELSE exposure_geo_cell_size
        extra_exposure_keywords ==
            IF ~ AllClose(cell_size, exposure_geo_cell_size)
            THEN [resolution |-> Some(exposure_geo_cell_size)]
            ELSE NoKeywords
    IN  [hazard_layer |-> hazard_layer, exposure_layer |-> exposure_layer,
         raised |-> NoError,
         clipped_hazard |->
             clip_layer(hazard_layer,
                        extent_to_geoarray(hazard_layer.extent), cell_size,
                        NoKeywords),
         clipped_exposure |->
             clip_layer(exposure_layer,
                        extent_to_geoarray(exposure_layer.extent), cell_size,
                        extra_exposure_keywords)]

\* clip_layers(shake_raster_path, population_raster_path) on the layers the
\* two paths load
ClipLayers(hazard_layer, exposure_layer) ==
    LET hazard_geo_extent      == extent_to_geoarray(hazard_layer.extent)
        hazard_geo_cell_size   == get_wgs84_resolution(hazard_layer)
        exposure_geo_cell_size == get_wgs84_resolution(exposure_layer)
        cell_size == IF hazard_geo_cell_size < exposure_geo_cell_size
                     THEN hazard_geo_cell_size ELSE exposure_geo_cell_size
        extra_exposure_keywords ==
            IF ~ AllClose(cell_size, exposure_geo_cell_size)
            THEN [resolution |-> Some(exposure_geo_cell_size)]
            ELSE NoKeywords
    IN  [hazard_layer |-> hazard_layer, exposure_layer |-> exposure_layer,
         raised |-> NoError,
         clipped_hazard |->
             clip_layer(hazard_layer, hazard_geo_extent, cell_size,
                        NoKeywords),
         clipped_exposure |->
             clip_layer(exposure_layer, hazard_geo_extent, cell_size,
                        extra_exposure_keywords)]

\* no call of clip_layers yet
NoClip == <<>>

(***************************************************************************)
(* set_contour_properties: the labels of the contour layer                 *)
(***************************************************************************)
\* A contour feature: its id, whether feature.isValid(), its MMI attribute in
\* tenths, and its ROMAN attribute: None (NULL) or Some(string).
ContourFeature(id, valid, mmi10) ==
    [id |-> id, valid |-> valid, mmi10 |-> mmi10, roman |-> None]

\* The label that labels every level, the half-integer ones too
ContourRomanOfEveryLevel(mmi10) == romanize(mmi10)

\* roman = '' if mmi_value != round(mmi_value) else self.romanize(mmi_value)
ContourRoman(mmi10) == IF mmi10 % 10 # 0 THEN <<>> ELSE romanize(mmi10)

\* whether the label of a feature raises: only romanize can
ContourRomanRaises(mmi10) == mmi10 % 10 = 0 /\ RomanizeRaises(mmi10)

\* set_contour_properties(input_file): the loop over the features changes the
\* ROMAN attribute of every valid feature in the edit buffer, and
\* commitChanges() writes the buffer; an exception in the loop leaves the
\* loop before the commit, so the layer keeps its attributes.
SetContourProperties(features) ==
    IF \E i \in 1..Len(features) :
           features[i].valid /\ ContourRomanRaises(features[i].mmi10)
    THEN [before |-> features, features |-> features, raised |-> "IndexError"]
    ELSE [before |-> features,
          features |->
              [i \in 1..Len(features) |->
                  IF features[i].valid
                  THEN [features[i] EXCEPT
                            !.roman = Some(ContourRoman(features[i].mmi10))]
                  ELSE features[i]],
          raised |-> NoError]

(***************************************************************************)
(* push_shake_event_to_rest.  The server is the response it gives to each  *)
(* request: Some(status code), or None when the request raises             *)
(* ConnectionError.                                                        *)
(***************************************************************************)
Status_ok == 200
Status_created == 201
Status_not_found == 404
Status_server_error == 500
ConnectionError == "ConnectionError"
TypeError == "TypeError"
RESTRequestFailedError == "RESTRequestFailedError"

\* what the try block has done so far: the requests sent, the final status
\* of each of the two exchanges it reached, and the exception that left it
Pushed(requests, finals, error) ==
    [requests |-> requests, finals |-> finals, raised |-> error]

\* the check of the final response of an exchange: a status other than ok
\* and created makes a RESTRequestFailedError, logged when fail_silent and
\* raised otherwise
CheckStatus(fail_silent, requests, finals, status) ==
    IF status \in {Status_ok, Status_created} \/ fail_silent
    THEN Pushed(requests, Append(finals, status), NoError)
    ELSE Pushed(requests, Append(finals, status), RESTRequestFailedError)

\* The exchange about the earthquake: GET, then PUT when it is there; when
\* it is not found json.dumps(earthquake_data, headers=headers) raises
\* TypeError before the POST is sent; any other status of the GET is the
\* final status.
EarthquakeExchange(server, fail_silent) ==
    IF server.earthquake_get = None
    THEN Pushed(<<"GET earthquake">>, <<>>, ConnectionError)
    ELSE IF server.earthquake_get = Some(Status_ok)
    THEN IF server.earthquake_put = None
         THEN Pushed(<<"GET earthquake", "PUT earthquake">>, <<>>,
                     ConnectionError)
         ELSE CheckStatus(fail_silent, <<"GET earthquake", "PUT earthquake">>,
                          <<>>, The(server.earthquake_put))
    ELSE IF server.earthquake_get = Some(Status_not_found)
    THEN Pushed(<<"GET earthquake">>, <<>>, TypeError)
    ELSE CheckStatus(fail_silent, <<"GET earthquake">>, <<>>,
                     The(server.earthquake_get))

\* The exchange about the report, after the earthquake's: the three report
\* files are opened, then GET, then PUT when the report is there and POST
\* when it is not found.
ReportExchange(server, fail_silent, files_ok, done) ==
    IF ~ files_ok THEN Pushed(done.requests, done.finals, IOError)
    ELSE IF server.report_get = None
    THEN Pushed(Append(done.requests, "GET earthquake-report"), done.finals,
                ConnectionError)
    ELSE IF server.report_get = Some(Status_ok)
    THEN CheckStatus(fail_silent,
                     done.requests
                         \o <<"GET earthquake-report", "PUT earthquake-report">>,
                     done.finals, The(server.report_put))
    ELSE IF server.report_get = Some(Status_not_found)
    THEN CheckStatus(fail_silent,
                     done.requests
                         \o <<"GET earthquake-report", "POST earthquake-report">>,
                     done.finals, The(server.report_post))
    ELSE CheckStatus(fail_silent,
                     Append(done.requests, "GET earthquake-report"),
                     done.finals, The(server.report_get))

\* the try block
PushExchanges(server, fail_silent, files_ok) ==
    LET first == EarthquakeExchange(server, fail_silent)
    IN  IF first.raised # NoError THEN first
        ELSE ReportExchange(server, fail_silent, files_ok, first)

\* push_shake_event_to_rest(shake_event, fail_silent): nothing is sent when
\* the client is not configured; the except clause logs the exception when
\* fail_silent is not set and raises it again when it is.
PushShakeEvent(configured, server, fail_silent, files_ok) ==
    IF ~ configured THEN Pushed(<<>>, <<>>, NoError)
    ELSE LET tried == PushExchanges(server, fail_silent, files_ok)
         IN  IF tried.raised # NoError /\ ~ fail_silent
             THEN [tried EXCEPT !.raised = NoError]
             ELSE tried

NoLayer == <<>>
NoPush == <<>>

LayerIdle == clip = NoClip /\ contour_layer = NoLayer /\ push = NoPush

(***************************************************************************)
(* The calls.  `call` keeps the last call: its name and arguments, the     *)
(* directory and the impact before it, what the pass met, the exception    *)
(* raised and the path returned.  A call that leaves the directory as it   *)
(* was does not advance the clock.                                         *)
(***************************************************************************)
Ends(op, force_flag, algorithm, env, result, returned) ==
    \E outcome \in {result} :
    /\ fs' = outcome.w.fs
    /\ rect_heap' = outcome.w.rect_heap
    /\ search_boxes' = outcome.w.search_boxes
    /\ extent_with_cities' = outcome.w.extent_with_cities
    /\ most_affected_city' = outcome.w.most_affected_city
    /\ impact' = outcome.w.impact
    /\ impacts_html' = outcome.w.impacts_html
    /\ clock' = IF outcome.w.fs = fs THEN clock ELSE clock + 1
    /\ call' = [op |-> op, force_flag |-> force_flag, algorithm |-> algorithm,
                now |-> clock + 1,
                before |-> [fs |-> fs, impact |-> impact,
                            impacts_html |-> impacts_html],
                env |-> env,
                raised |-> outcome.raised, returned |-> returned]
    /\ UNCHANGED <<dataset, parseVars, layerVars, push>>

\* a call that reads and writes the directory only
FileEnds(op, force_flag, algorithm, env, dir, error, returned) ==
    Ends(op, force_flag, algorithm, env,
         Outcome([World EXCEPT !.fs = dir], error, <<>>), returned)

mmi_data_to_delimited_file(force_flag) ==
    /\ clock < MaxClock
    /\ FileEnds("mmi_data_to_delimited_file", force_flag, "", AllGoesWell,
                DelimitedFile(fs, clock + 1, force_flag), NoError,
                Some(Plain("mmi.csv")))
    /\ UNCHANGED ret

mmi_data_to_vrt(force_flag) ==
    /\ clock < MaxClock
    /\ FileEnds("mmi_data_to_vrt", force_flag, "", AllGoesWell,
                Vrt(fs, clock + 1, force_flag), NoError,
                Some(Plain("mmi.vrt")))
    /\ UNCHANGED ret

mmi_data_to_shapefile(force_flag, ogr_ok) ==
    /\ clock < MaxClock
    /\ FileEnds("mmi_data_to_shapefile", force_flag, "",
                [AllGoesWell EXCEPT !.ogr_ok = ogr_ok],
                Shapefile(fs, clock + 1, force_flag, ogr_ok), NoError,
                Some(Plain("mmi-points.shp")))
    /\ UNCHANGED ret

mmi_data_to_raster(force_flag, algorithm, gdal_ok) ==
    /\ clock < MaxClock
    /\ FileEnds("mmi_data_to_raster", force_flag, algorithm,
                [AllGoesWell EXCEPT !.gdal_ok = gdal_ok],
                Raster(fs, clock + 1, force_flag, algorithm, gdal_ok), NoError,
                Some(File("mmi-%s.tif", algorithm)))
    /\ UNCHANGED ret

mmi_data_to_contours(force_flag, algorithm, gdal_ok, remove_fails) ==
    /\ clock < MaxClock
    /\ \E done \in {Contours(fs, clock + 1, force_flag, algorithm, gdal_ok,
                            remove_fails)} :
        /\ FileEnds("mmi_data_to_contours", force_flag, algorithm,
                    [AllGoesWell EXCEPT !.gdal_ok = gdal_ok,
                                        !.remove_fails = remove_fails],
                    done.dir, done.raised,
                    IF done.raised = NoError
                    THEN Some(File("mmi-contours-%s.shp", algorithm))
                    ELSE None)
        /\ UNCHANGED ret

local_city_features(gdal_ok) ==
    /\ clock < MaxClock
    /\ \E outcome \in {Call_local_city_features(World, clock + 1, gdal_ok)} :
        /\ Ends("local_city_features", FALSE, "nearest",
                [AllGoesWell EXCEPT !.gdal_ok = gdal_ok], outcome, None)
        /\ ret' = [op |-> "local_city_features",
                   raised |-> outcome.raised # NoError,
                   value |-> outcome.value, row_count |-> 0]

sorted_impacted_cities(row_count, gdal_ok) ==
    /\ clock < MaxClock
    /\ \E outcome \in {Call_sorted_impacted_cities(World, clock + 1, row_count,
                                                  gdal_ok)} :
        /\ Ends("sorted_impacted_cities", FALSE, "nearest",
                [AllGoesWell EXCEPT !.gdal_ok = gdal_ok], outcome, None)
        /\ ret' = [op |-> "sorted_impacted_cities",
                   raised |-> outcome.raised # NoError,
                   value |-> outcome.value, row_count |-> row_count]

calculate_impacts(force_flag, algorithm, env) ==
    /\ clock < MaxClock
    /\ \E outcome \in {Call_calculate_impacts(World, clock + 1, force_flag,
                                             algorithm, env)} :
        /\ Ends("calculate_impacts", force_flag, algorithm, env, outcome,
                IF outcome.raised = NoError
                THEN Some(File("impact-%s.tif", algorithm)) ELSE None)
        /\ UNCHANGED ret

renderMap(theForceFlag, env) ==
    /\ clock < MaxClock
    /\ \E outcome \in {Call_renderMap(World, clock + 1, theForceFlag, env)} :
        /\ Ends("renderMap", theForceFlag, "nearest", env, outcome,
                outcome.value)
        /\ UNCHANGED ret

eventDict(gdal_ok) ==
    /\ clock < MaxClock
    /\ \E outcome \in {Call_eventDict(World, clock + 1, gdal_ok)} :
        /\ Ends("eventDict", FALSE, "nearest",
                [AllGoesWell EXCEPT !.gdal_ok = gdal_ok], outcome,
                outcome.value)
        /\ UNCHANGED ret

clip_layers(hazard_layer, exposure_layer) ==
    /\ clip' = Some(ClipLayers(hazard_layer, exposure_layer))
    /\ UNCHANGED <<searchVars, parseVars, fileVars, contour_layer, push>>

push_shake_event_to_rest(configured, server, fail_silent, files_ok) ==
    /\ push' = Some([configured |-> configured, server |-> server,
                     fail_silent |-> fail_silent, files_ok |-> files_ok,
                     done |-> PushShakeEvent(configured, server, fail_silent,
                                             files_ok)])
    /\ UNCHANGED <<searchVars, parseVars, fileVars, layerVars>>

set_contour_properties(features) ==
    /\ contour_layer' = Some(SetContourProperties(features))
    /\ UNCHANGED <<searchVars, parseVars, fileVars, clip, push>>

(***************************************************************************)
(* The event after construction                                            *)
(***************************************************************************)
SearchIdle ==
    /\ dataset = <<>>
    /\ rect_heap = <<>>
    /\ search_boxes = None
    /\ extent_with_cities = None
    /\ most_affected_city = None
    /\ ret = [op |-> "__init__", raised |-> FALSE, value |-> <<>>,
              row_count |-> 0]

NoCall ==
    [op |-> "__init__", force_flag |-> FALSE, algorithm |-> "", now |-> 0,
     before |-> [fs |-> EmptyDirectory, impact |-> NoImpact,
                 impacts_html |-> None],
     env |-> AllGoesWell, raised |-> NoError, returned |-> None]

FileIdle ==
    /\ fs = EmptyDirectory
    /\ clock = 0
    /\ call = NoCall
    /\ impact = NoImpact
    /\ impacts_html = None
    /\ LayerIdle

(***************************************************************************)
(* The specification of the city search and the ranking                    *)
(***************************************************************************)
\* The raster of the default algorithm: the one the city search reads.
Interpolated == Raster(EmptyDirectory, 1, FALSE, "nearest", TRUE)

\* The event of a layer of places, once its intensities are interpolated.
SearchInit ==
    /\ ParseInit
    /\ dataset \in {LayerOf(ids, 1) : ids \in SUBSET (1..Len(Catalogue))}
    /\ rect_heap = <<>>
    /\ search_boxes = None
    /\ extent_with_cities = None
    /\ most_affected_city = None
    /\ ret = [op |-> "__init__", raised |-> FALSE, value |-> <<>>,
              row_count |-> 0]
    /\ fs = Interpolated
    /\ clock = 1
    /\ call = NoCall
    /\ impact = NoImpact
    /\ impacts_html = None
    /\ LayerIdle

SearchNext ==
    \/ local_city_features(TRUE)
    \/ \E row_count \in 0..MaxRowCount :
           sorted_impacted_cities(row_count, TRUE)

SearchSpec == SearchInit /\ [][SearchNext]_vars

(***************************************************************************)
(* The specification of the construction of events from grid documents     *)
(***************************************************************************)
ConstructInit == ParseInit /\ SearchIdle /\ FileIdle

ConstructNext ==
    \E doc \in Documents :
        ShakeEvent_init(doc) /\ UNCHANGED <<searchVars, fileVars, layerVars, push>>

ConstructSpec == ConstructInit /\ [][ConstructNext]_vars

(***************************************************************************)
(* The specification of the construction of events from documents whose    *)
(* grid_data and column schema vary                                        *)
(***************************************************************************)
SampleInit == ParseInit /\ SearchIdle /\ FileIdle

SampleNext ==
    \E doc \in SampleDocuments :
        ShakeEvent_init(doc) /\ UNCHANGED <<searchVars, fileVars, layerVars, push>>

SampleSpec == SampleInit /\ [][SampleNext]_vars

(***************************************************************************)
(* The specification of the calls that make the cached artifacts           *)
(***************************************************************************)
FileInit == ParseInit /\ SearchIdle /\ FileIdle

FileNext ==
    \/ \E force_flag \in BOOLEAN : mmi_data_to_delimited_file(force_flag)
    \/ \E force_flag \in BOOLEAN : mmi_data_to_vrt(force_flag)
    \/ \E force_flag, ogr_ok \in BOOLEAN :
           mmi_data_to_shapefile(force_flag, ogr_ok)
    \/ \E force_flag, gdal_ok \in BOOLEAN, algorithm \in Algorithms :
           mmi_data_to_raster(force_flag, algorithm, gdal_ok)
    \/ \E force_flag, gdal_ok \in BOOLEAN, algorithm \in Algorithms,
           remove_fails \in 0..Len(ContourParts) :
           mmi_data_to_contours(force_flag, algorithm, gdal_ok, remove_fails)

FileSpec == FileInit /\ [][FileNext]_vars

(***************************************************************************)
(* The specification of the calls over a directory that earlier runs left: *)
(* the handlers decide by os.path.exists what to reuse, whatever wrote it  *)
(***************************************************************************)
\* the artifacts an earlier run may have left
CachedFiles ==
    {Plain("mmi.csv"), Plain("mmi.csvt"), Plain("mmi.vrt"),
     Plain("mmi-points.shp"), File("mmi-%s.tif", "nearest")}

\* the directory in which exactly the files of `present` are there, from
\* call 1
DirectoryWith(present) ==
    [f \in Files |->
        IF f \notin present THEN AbsentFile
        ELSE IF f[1] = "mmi-%s.tif" THEN [at |-> 1, from |-> 1]
        ELSE [at |-> 1, from |-> 0]]

CacheInit ==
    /\ ParseInit
    /\ SearchIdle
    /\ fs \in {DirectoryWith(present) : present \in SUBSET CachedFiles}
    /\ clock = 1
    /\ call = NoCall
    /\ impact = NoImpact
    /\ impacts_html = None
    /\ LayerIdle

CacheNext ==
    \/ \E force_flag \in BOOLEAN : mmi_data_to_delimited_file(force_flag)
    \/ \E force_flag \in BOOLEAN : mmi_data_to_vrt(force_flag)
    \/ \E force_flag, ogr_ok \in BOOLEAN :
           mmi_data_to_shapefile(force_flag, ogr_ok)
    \/ \E force_flag, gdal_ok \in BOOLEAN, algorithm \in Algorithms :
           mmi_data_to_raster(force_flag, algorithm, gdal_ok)

CacheSpec == CacheInit /\ [][CacheNext]_vars

(***************************************************************************)
(* The specification of the passes over an event: the map rendering and    *)
(* the contouring, on three layers of places                               *)
(***************************************************************************)
PassLayers == {<<>>, LayerOf({1, 2, 3, 4}, 1), LayerOf({4, 9}, 1)}

PassInit ==
    /\ ParseInit
    /\ FileIdle
    /\ dataset \in PassLayers
    /\ rect_heap = <<>>
    /\ search_boxes = None
    /\ extent_with_cities = None
    /\ most_affected_city = None
    /\ ret = [op |-> "__init__", raised |-> FALSE, value |-> <<>>,
              row_count |-> 0]

PassNext ==
    \/ \E theForceFlag \in BOOLEAN, env \in Environments :
           renderMap(theForceFlag, env)
    \/ \E force_flag, gdal_ok \in BOOLEAN :
           mmi_data_to_contours(force_flag, "nearest", gdal_ok, 0)

PassSpec == PassInit /\ [][PassNext]_vars

(***************************************************************************)
(* The specification of the impact calculation                             *)
(***************************************************************************)
\* what a call of calculate_impacts can meet
ImpactEnvironments ==
    {env \in Environments :
        /\ env.ogr_ok /\ env.remove_ok /\ env.write_ok /\ env.compose_ok
        /\ env.remove_fails = 0}
    \cup {[AllGoesWell EXCEPT !.impacts_html_ok = FALSE]}

ImpactInit == ParseInit /\ SearchIdle /\ FileIdle

ImpactNext ==
    \E force_flag \in BOOLEAN, algorithm \in Algorithms,
       env \in ImpactEnvironments :
        calculate_impacts(force_flag, algorithm, env)

ImpactSpec == ImpactInit /\ [][ImpactNext]_vars

(***************************************************************************)
(* The specification of the search, the ranking and the map rendering on   *)
(* layers with few places: none, none that is eligible, one far from the    *)
(* event, and for contrast one city                                        *)
(***************************************************************************)
SparseLayers ==
    {<<>>, LayerOf({6, 7}, 1), LayerOf({10}, 1), LayerOf({12}, 1),
     LayerOf({1, 7}, 1)}

\* what a pass over such an event can meet
SparseEnvironments ==
    {env \in Environments :
        /\ env.ogr_ok /\ env.remove_ok /\ env.compose_ok
        /\ env.remove_fails = 0
        /\ env.result \in {CompleteResult(1),
                           WithoutKey(CompleteResult(1), "total_fatalities")}}

SparseInit ==
    /\ ParseInit
    /\ FileIdle
    /\ dataset \in SparseLayers
    /\ rect_heap = <<>>
    /\ search_boxes = None
    /\ extent_with_cities = None
    /\ most_affected_city = None
    /\ ret = [op |-> "__init__", raised |-> FALSE, value |-> <<>>,
              row_count |-> 0]

SparseNext ==
    \/ \E gdal_ok \in BOOLEAN : local_city_features(gdal_ok)
    \/ \E row_count \in {0, 5}, gdal_ok \in BOOLEAN :
           sorted_impacted_cities(row_count, gdal_ok)
    \/ \E theForceFlag \in BOOLEAN, env \in SparseEnvironments :
           renderMap(theForceFlag, env)

SparseSpec == SparseInit /\ [][SparseNext]_vars

(***************************************************************************)
(* The specification of the push of an event to the REST server            *)
(***************************************************************************)
Servers ==
    [earthquake_get : {Some(Status_ok), Some(Status_not_found),
                       Some(Status_server_error), None},
     earthquake_put : {Some(Status_ok), Some(Status_server_error), None},
     report_get : {Some(Status_ok), Some(Status_not_found),
                   Some(Status_server_error), None},
     report_put : {Some(Status_ok), Some(Status_server_error)},
     report_post : {Some(Status_created), Some(Status_server_error)}]

PushInit == ParseInit /\ SearchIdle /\ FileIdle

PushNext ==
    \E configured, fail_silent, files_ok \in BOOLEAN, server \in Servers :
        push_shake_event_to_rest(configured, server, fail_silent, files_ok)

PushSpec == PushInit /\ [][PushNext]_vars

(***************************************************************************)
(* The specification of the dict that describes the event, after impact    *)
(* calculations that gave fatality totals on both sides of the limits of   *)
(* the ranges                                                              *)
(***************************************************************************)
FatalityTotals == {0, 50, 100, 101, 132, 1000, 5000, 10000, 10001, 20000}

DictEnvironments ==
    {[AllGoesWell EXCEPT
         !.result = [CompleteResult(1) EXCEPT !.total_fatalities = Some(total)]] :
        total \in FatalityTotals}

\* no place, four cities, two places that are no cities, a place far away
DictLayers ==
    {<<>>, LayerOf({1, 2, 3, 4}, 1), LayerOf({6, 7}, 1), LayerOf({12}, 1)}

DictInit ==
    /\ ParseInit
    /\ FileIdle
    /\ dataset \in DictLayers
    /\ rect_heap = <<>>
    /\ search_boxes = None
    /\ extent_with_cities = None
    /\ most_affected_city = None
    /\ ret = [op |-> "__init__", raised |-> FALSE, value |-> <<>>,
              row_count |-> 0]

DictNext ==
    \/ \E env \in DictEnvironments : calculate_impacts(FALSE, "nearest", env)
    \/ \E gdal_ok \in BOOLEAN : eventDict(gdal_ok)

DictSpec == DictInit /\ [][DictNext]_vars

(***************************************************************************)
(* The specification of the ranking on a layer that gives its places in    *)
(* any order                                                               *)
(***************************************************************************)
\* six cities of the catalogue, enough for the list to be sliced: three of
\* intensity 5 and population 5000, two of them of one name
RankPlaces == {1, 2, 3, 4, 5, 8}

\* the orders in which layer.getFeatures can give the places
Orders ==
    {order \in [1..Cardinality(RankPlaces) -> RankPlaces] :
        \A i, j \in DOMAIN order : order[i] = order[j] => i = j}

RankLayers ==
    {[k \in DOMAIN order |-> [fid |-> order[k]] @@ Catalogue[order[k]]] :
        order \in Orders}

RankInit ==
    /\ ParseInit
    /\ dataset \in RankLayers
    /\ rect_heap = <<>>
    /\ search_boxes = None
    /\ extent_with_cities = None
    /\ most_affected_city = None
    /\ ret = [op |-> "__init__", raised |-> FALSE, value |-> <<>>,
              row_count |-> 0]
    /\ fs = Interpolated
    /\ clock = 1
    /\ call = NoCall
    /\ impact = NoImpact
    /\ impacts_html = None
    /\ LayerIdle

RankNext ==
    \E row_count \in 0..MaxRowCount : sorted_impacted_cities(row_count, TRUE)

RankSpec == RankInit /\ [][RankNext]_vars

(***************************************************************************)
(* The specification of the clipping of the hazard and exposure layers     *)
(***************************************************************************)
\* the extent of the event's raster, and extents of a population raster
\* that covers it, overlaps it and lies apart from it
ClipExtents ==
    {bounds_to_rectangle, Rect(-2048, 2048, 2048, -2048),
     Rect(0, 512, 3000, -512), Rect(5000, 6000, 6000, 5000)}

\* cell sizes in units of 1e-8 degree: 30 arc seconds, two sizes just below
\* it (one within numpy's tolerance of it, one not), its double and its half
CellSizes == {833333, 833330, 833300, 1666666, 416666}

ClipRasters ==
    {RasterLayer(extent, cell_size) :
        extent \in ClipExtents, cell_size \in CellSizes}

ClipInit == ParseInit /\ SearchIdle /\ FileIdle

ClipNext ==
    \E hazard_layer, exposure_layer \in ClipRasters :
        clip_layers(hazard_layer, exposure_layer)

ClipSpec == ClipInit /\ [][ClipNext]_vars

(***************************************************************************)
(* The specification of the labelling of the contour layer                 *)
(***************************************************************************)
\* the levels of the contours in tenths: one every half unit of intensity,
\* from 0 to a level beyond the last numeral of roman_list
ContourLevels == {5 * k : k \in 0..26}

\* layers of two contours, the first of which may be an invalid feature
ContourLayers ==
    {<<ContourFeature(1, valid, first), ContourFeature(2, TRUE, second)>> :
        valid \in BOOLEAN, first \in ContourLevels, second \in ContourLevels}

ContourInit == ParseInit /\ SearchIdle /\ FileIdle

ContourNext == \E features \in ContourLayers : set_contour_properties(features)

ContourSpec == ContourInit /\ [][ContourNext]_vars

(***************************************************************************)
(* Claims about the city search and the ranking.  They are stated on the   *)
(* layer and the event's fields, not on the operators above.               *)
(***************************************************************************)
\* the event bounds scaled k times
RECURSIVE ScalePow(_, _)
ScalePow(r, k) == IF k = 0 THEN r ELSE ScalePow(ScaleRect(r), k - 1)

\* the rectangle attempt k queries, and the number of places it intersects
AttemptRect(k) == ScalePow(bounds_to_rectangle, k - 1)
AttemptCount(k) ==
    Cardinality({i \in 1..Len(dataset) : Intersects(AttemptRect(k), dataset[i].pos)})

\* the first attempt that finds minimum_city_count places, or attempts_limit
FirstSuccess ==
    IF \E k \in 1..attempts_limit : AttemptCount(k) >= minimum_city_count
    THEN CHOOSE k \in 1..attempts_limit :
            /\ AttemptCount(k) >= minimum_city_count
            /\ \A j \in 1..(k - 1) : AttemptCount(j) < minimum_city_count
    ELSE attempts_limit

Searched == search_boxes # None
Boxes == The(search_boxes)

\* C1: the search makes at most attempts_limit attempts and none after the
\* first one that finds minimum_city_count places: there are as many records
\* as the index of the first successful attempt (attempts_limit when none
\* succeeds), each holds the count of its attempt, and every record before
\* the last has a count below minimum_city_count.
C1_SearchStopsAtFirstSuccess ==
    Searched =>
        /\ Len(Boxes) = FirstSuccess
        /\ Len(Boxes) <= attempts_limit
        /\ \A k \in 1..Len(Boxes) : Boxes[k].city_count = AttemptCount(k)
        /\ \A k \in 1..(Len(Boxes) - 1) :
               Boxes[k].city_count < minimum_city_count

\* a search that succeeded at its third attempt
C1_Witness ==
    /\ Searched
    /\ Len(Boxes) = 3
    /\ Boxes[3].city_count >= minimum_city_count

\* C2: the k-th record holds the rectangle its own attempt queried, the
\* event bounds scaled k-1 times, whatever scaling later attempts did.
C2_RecordHoldsItsRectangle ==
    Searched =>
        \A k \in 1..Len(Boxes) :
            rect_heap[Boxes[k].geometry] = AttemptRect(k)

Returned(op) == ret.op = op /\ ~ ret.raised

\* key(c) < key(d) in the order the ranking is specified to have: as KeyLess,
\* with the exact intensity descending
SpecKeyLess(c, d) ==
    IF c.mmi_int # d.mmi_int THEN c.mmi_int > d.mmi_int
    ELSE IF c.population # d.population THEN c.population > d.population
    ELSE IF c.name # d.name THEN StrLess(c.name, d.name)
    ELSE IF c.mmi # d.mmi THEN c.mmi > d.mmi
    ELSE IF c.roman # d.roman THEN StrLess(c.roman, d.roman)
    ELSE IF c.dist_to # d.dist_to THEN c.dist_to < d.dist_to
    ELSE IF c.dir_to # d.dir_to THEN c.dir_to < d.dir_to
    ELSE IF c.dir_from # d.dir_from THEN c.dir_from < d.dir_from
    ELSE c.id < d.id

\* C3: in the list sorted_impacted_cities returns, no city is greater than
\* the one after it under the specified key sequence (truncated intensity
\* descending, population descending, name, exact intensity descending,
\* roman, distance, bearing to, bearing from, id).
C3_SortedBySpecifiedKeys ==
    Returned("sorted_impacted_cities") =>
        \A i \in 1..(Len(ret.value) - 1) :
            ~ SpecKeyLess(ret.value[i + 1], ret.value[i])

\* the places of the layer the last attempt's rectangle intersects
LastAttemptPlaces ==
    {i \in 1..Len(dataset) : Intersects(AttemptRect(Len(Boxes)), dataset[i].pos)}

Eligible(f) == StrContains(Str_PPL, f.fcode) /\ f.population >= 1

ReturnedIds == {ret.value[j].id : j \in 1..Len(ret.value)}

AffectedCities == CityDicts(LocalCityFeatures(dataset).cities)
FullRanking == Sorted(AffectedCities)

Min(a, b) == IF a <= b THEN a ELSE b

\* C9: sorted_impacted_cities(row_count) returns exactly the first
\* min(row_count, N) cities of the full ranking of the N affected cities.
C9_ReturnsFirstRowCount ==
    Returned("sorted_impacted_cities") =>
        ret.value = SubSeq(FullRanking, 1, Min(ret.row_count, Len(FullRanking)))

\* C10: after a call of sorted_impacted_cities that returns, most_affected_city
\* is None when there is no affected city, and otherwise the affected city no
\* other precedes in the ranking, whatever row_count was.
C10_MostAffectedIsFirstOfAll ==
    Returned("sorted_impacted_cities") =>
        IF Len(AffectedCities) = 0
        THEN most_affected_city = None
        ELSE /\ most_affected_city # None
             /\ \E i \in 1..Len(AffectedCities) :
                    The(most_affected_city) = AffectedCities[i]
             /\ \A i \in 1..Len(AffectedCities) :
                    ~ KeyLess(AffectedCities[i], The(most_affected_city))

\* a call with row_count 0 on more than five cities: nothing is returned and
\* the most affected city is set
C10_Witness ==
    /\ Returned("sorted_impacted_cities")
    /\ ret.row_count = 0
    /\ ret.value = <<>>
    /\ Len(AffectedCities) > 5
    /\ most_affected_city # None

(***************************************************************************)
(* Claims about the parser                                                 *)
(***************************************************************************)
\* a required element or attribute of the document is missing
MissingRequired(doc) ==
    \/ ~ doc.has_event \/ ~ doc.has_grid_specification
    \/ ~ doc.has_grid_data \/ ~ doc.has_text
    \/ doc.event_timestamp.kind = "absent"
    \/ \E token \in {doc.magnitude, doc.lon, doc.lat, doc.depth,
                     doc.event_description, doc.lon_min, doc.lon_max,
                     doc.lat_min, doc.lat_max, doc.nlat, doc.nlon} :
           token.kind = "absent"

GridFields(fields) ==
    <<fields.magnitude, fields.x_minimum, fields.x_maximum, fields.y_minimum,
      fields.y_maximum, fields.rows, fields.columns, fields.mmi_data>>

FullyPopulated(fields) ==
    \A i \in 1..Len(GridFields(fields)) : GridFields(fields)[i] # None

\* C4: a constructor call on a document that misses a required element or
\* attribute raises GridXmlParseError and gives the caller no event; every
\* event a caller holds has its whole grid set (magnitude, bounds, rows,
\* columns, mmi_data), and was parsed from a document missing nothing.
C4_ParseTotalOrNothing ==
    /\ (document # None /\ MissingRequired(The(document))) =>
           raised = GridXmlParseError
    /\ event # None =>
           /\ FullyPopulated(The(event).fields)
           /\ ~ MissingRequired(The(event).grid)

\* the caller holds an event of an earlier call, and the last call raised on
\* a document without nlon, leaving its own instance partly set
C4_Witness ==
    /\ raised = GridXmlParseError
    /\ document # None
    /\ The(document).nlon.kind = "absent"
    /\ instance.rows # None /\ instance.columns = None
    /\ event # None
    /\ The(event).fields # instance

(***************************************************************************)
(* Claims about the cached artifacts                                       *)
(***************************************************************************)
\* C5: mmi_data_to_raster without force, for an algorithm whose tif is in
\* the directory, returns the tif's path and leaves every file of the
\* directory as it was; it runs the interpolation only when the tif is absent.
C5_CachedRasterIsReused ==
    (call.op = "mmi_data_to_raster" /\ ~ call.force_flag) =>
        IF Exists(call.before.fs, File("mmi-%s.tif", call.algorithm))
        THEN /\ fs = call.before.fs
             /\ call.raised = NoError
             /\ call.returned = Some(File("mmi-%s.tif", call.algorithm))
        ELSE fs[File("mmi-%s.tif", call.algorithm)].at \in {0, call.now}

\* a call without force for an algorithm whose tif an earlier call made
C5_Witness ==
    /\ call.op = "mmi_data_to_raster" /\ ~ call.force_flag
    /\ Exists(call.before.fs, File("mmi-%s.tif", call.algorithm))
    /\ fs = call.before.fs
    /\ call.returned = Some(File("mmi-%s.tif", call.algorithm))

\* the files made from the raster of an algorithm
ContourFiles(algorithm) ==
    {File("mmi-contours-%s.shp", algorithm),
     File("mmi-contours-%s.shx", algorithm),
     File("mmi-contours-%s.dbf", algorithm)}
ImpactFiles(algorithm) ==
    {File("impact-%s.tif", algorithm), File("impact-%s.keywords", algorithm),
     Plain("impacts.html")}
CityFiles == {Plain("mmi-cities.shp"), Plain("affected-cities.html")}
MapFiles == {Plain("%s-%s.pdf"), Plain("%s-%s.png"), Plain("%s-thumb-%s.png")}

\* the call made the file, from the raster as the call left it
RecomputedInPass(f) ==
    /\ fs[f].at = call.now
    /\ fs[f].from = fs[File("mmi-%s.tif", call.algorithm)].at

\* the call ran the interpolation and it gave a raster
RasterRegenerated == fs[File("mmi-%s.tif", call.algorithm)].at = call.now

ForcePass ==
    /\ call.op \in {"renderMap", "mmi_data_to_contours"}
    /\ call.force_flag

\* C6 as stated: a forced pass (renderMap or mmi_data_to_contours) that
\* regenerates the raster and returns has also recomputed, in that pass and
\* from the new raster, the contours, the city lookups and the impact, and
\* leaves no derived artifact that comes from an older raster.
C6_ForcePassRecomputesAll ==
    (ForcePass /\ call.raised = NoError /\ RasterRegenerated) =>
        /\ \A f \in ContourFiles(call.algorithm)
                       \cup ImpactFiles(call.algorithm) :
               RecomputedInPass(f)
        /\ \A f \in CityFiles \cup MapFiles :
               Exists(fs, f) => RecomputedInPass(f)

\* C6, amended: a forced renderMap that returns has made the contours, the
\* impact and the map in this pass from the raster of the pass, and the
\* cities shapefile and table too when cities are found and can be written;
\* a forced mmi_data_to_contours that returns has made the raster's contours
\* only, and leaves the city files, the impact files and the event's impact
\* as they were.  The raster of the pass is the new one when gdal_grid
\* succeeded.
C6_ForcedRenderRecomputesAll ==
    (ForcePass /\ call.raised = NoError) =>
        /\ call.env.gdal_ok => RasterRegenerated
        /\ \A f \in ContourFiles(call.algorithm) : RecomputedInPass(f)
        /\ call.op = "renderMap" =>
              /\ \A f \in ImpactFiles(call.algorithm) \cup MapFiles :
                     RecomputedInPass(f)
              /\ \A f \in CityFiles :
                     fs[f].at = call.now => RecomputedInPass(f)
              /\ LET found == LocalCityFeatures(dataset)
                 IN  (~ found.raised /\ Len(found.cities) >= 1
                         /\ call.env.write_ok)
                     => \A f \in CityFiles : RecomputedInPass(f)
        /\ call.op = "mmi_data_to_contours" =>
              /\ \A f \in ImpactFiles(call.algorithm) \cup CityFiles
                             \cup MapFiles :
                     fs[f] = call.before.fs[f]
              /\ impact = call.before.impact
              /\ impacts_html = call.before.impacts_html

\* a forced renderMap over the artifacts of an earlier pass: it returns, and
\* the raster is a new one
C6_Witness ==
    /\ call.op = "renderMap" /\ call.force_flag /\ call.raised = NoError
    /\ RasterRegenerated
    /\ \A f \in ContourFiles("nearest") \cup ImpactFiles("nearest")
                   \cup CityFiles :
           Exists(call.before.fs, f) /\ RecomputedInPass(f)

(***************************************************************************)
(* Claims about the impact calculation                                     *)
(***************************************************************************)
\* a key of the four is not in the result
LacksKey(result) == \E key \in ResultKeys : result[key] = None
\* a band of 2..9 is not in a per-band dict of the result
LacksBand(result) ==
    \E key \in PerBandKeys :
        /\ result[key] # None
        /\ \E band \in Bands : band \notin DOMAIN The(result[key])

\* the call got as far as the result of the fatality function
GotResult ==
    /\ call.op = "calculate_impacts"
    /\ call.env.population_found
    /\ Exists(fs, File("mmi-%s.tif", call.algorithm))

ImpactUntouched ==
    /\ impact = call.before.impact
    /\ impacts_html = call.before.impacts_html
    /\ \A f \in ImpactFiles(call.algorithm) : fs[f] = call.before.fs[f]

C11_ExtentIsLastAttempt ==
    Searched =>
        /\ extent_with_cities # None
        /\ rect_heap[The(extent_with_cities)] = AttemptRect(Len(Boxes))
        /\ rect_heap[The(extent_with_cities)]
               = LocalCityFeatures(dataset).request

\* (xmax - xmin) * (ymax - ymin) of a rectangle
Area(r) == (r.xmax - r.xmin) * (r.ymax - r.ymin)

\* no place of the layer intersects the rectangle of any attempt
NoPlaceInAnyRectangle ==
    \A k \in 1..attempts_limit : AttemptCount(k) = 0

\* C12: on a layer with no place in any search rectangle, the city search
\* returns the empty list and leaves exactly 5 records, none of which holds
\* a rectangle of smaller area than the record before it.
C12_ExhaustedSearchLeavesFiveBoxes ==
    (Returned("local_city_features") /\ NoPlaceInAnyRectangle) =>
        /\ ret.value = <<>>
        /\ Len(Boxes) = 5
        /\ \A k \in 1..(Len(Boxes) - 1) :
               Area(rect_heap[Boxes[k].geometry])
                   <= Area(rect_heap[Boxes[k + 1].geometry])

\* a search that is exhausted on a layer that holds a place, far from the
\* event
C12_Witness ==
    /\ Returned("local_city_features")
    /\ NoPlaceInAnyRectangle
    /\ dataset # <<>>
    /\ Len(Boxes) = 5
    /\ Boxes[5].city_count = 0

(***************************************************************************)
(* Claims about events with no eligible city                               *)
(***************************************************************************)
\* the places the last attempt of a search of the layer intersects
FoundPlaces ==
    {i \in 1..Len(dataset) :
        Intersects(AttemptRect(FirstSuccess), dataset[i].pos)}

\* none of them is a populated place with a result of the raster lookup
NoEligibleCity ==
    \A i \in FoundPlaces :
        ~ (Eligible(dataset[i]) /\ dataset[i].lookup # "none")

\* the last call was a renderMap that went past the contours
Rendered ==
    /\ call.op = "renderMap"
    /\ \/ call.force_flag
       \/ \E f \in {"%s-%s.pdf", "%s-%s.png", "%s-thumb-%s.png"} :
              ~ Exists(call.before.fs, Plain(f))
    /\ call.raised # ContourCreationError

GridRan ==
    /\ call.op = "mmi_data_to_raster"
    /\ \/ call.force_flag
       \/ ~ Exists(call.before.fs, File("mmi-%s.tif", call.algorithm))

\* C14: when gdal_grid fails, mmi_data_to_raster raises and returns no path;
\* the path it returns is never that of a tif that is not there.
C14_FailedGridRaises ==
    call.op = "mmi_data_to_raster" =>
        /\ (GridRan /\ ~ call.env.gdal_ok) =>
               (call.raised # NoError /\ call.returned = None)
        /\ call.returned # None => Exists(fs, The(call.returned))

\* the intensity has a numeral in the table of the levels 0 to 12
Romanizable(mmi10) == 0 <= IntOfMmi(mmi10) /\ IntOfMmi(mmi10) < Len(roman_list)

\* C15: local_city_features does not raise for a city whose intensity has
\* no numeral: it leaves that city out and returns every other eligible
\* city of the search rectangle.
C15_UnromanizableCitySkipped ==
    ret.op = "local_city_features" =>
        /\ ~ ret.raised
        /\ \A i \in LastAttemptPlaces :
               LET place == dataset[i]
                   mmi10 == LookupMmi(place).mmi
               IN  (Eligible(place) /\ place.lookup # "none") =>
                       (place.fid \in ReturnedIds <=> Romanizable(mmi10))

(***************************************************************************)
(* Claims about the filter of the cities                                   *)
(***************************************************************************)
\* C16: every city local_city_features returns is a place of the layer with
\* a population of 1 or more and a feature code that contains PPL; a place
\* of population 0 is not in the list, inside the search rectangle or not.
C16_OnlyPopulatedPlaces ==
    Returned("local_city_features") =>
        /\ \A j \in 1..Len(ret.value) :
               /\ ret.value[j].population >= 1
               /\ \E i \in 1..Len(dataset) :
                      /\ dataset[i].fid = ret.value[j].id
                      /\ dataset[i].population = ret.value[j].population
                      /\ StrContains(Str_PPL, dataset[i].fcode)
        /\ \A i \in 1..Len(dataset) :
               dataset[i].population = 0 => dataset[i].fid \notin ReturnedIds

\* a list returned from a search rectangle that holds a city, a populated
\* place of population 0 and a place that is no populated place
C16_Witness ==
    /\ Returned("local_city_features")
    /\ ret.value # <<>>
    /\ \E i \in LastAttemptPlaces :
           dataset[i].population = 0 /\ StrContains(Str_PPL, dataset[i].fcode)
    /\ \E i \in LastAttemptPlaces :
           dataset[i].population >= 1 /\ ~ StrContains(Str_PPL, dataset[i].fcode)

(***************************************************************************)
(* Claims about the order of the ranking                                   *)
(***************************************************************************)
\* C17: in the list sorted_impacted_cities returns, of two cities of the
\* same truncated intensity and the same population the one whose name is
\* the smaller comes first, in whatever order the layer gave the places.
C17_SmallerNameFirst ==
    Returned("sorted_impacted_cities") =>
        \A i, j \in 1..Len(ret.value) :
            (/\ ret.value[i].mmi_int = ret.value[j].mmi_int
             /\ ret.value[i].population = ret.value[j].population
             /\ StrLess(ret.value[i].name, ret.value[j].name)) => i < j

\* a ranking of a layer that gave the city of the greater name before the
\* one of the smaller name, both of the same intensity and population
C17_Witness ==
    /\ Returned("sorted_impacted_cities")
    /\ \E i, j \in 1..Len(ret.value) :
           /\ ret.value[i].mmi_int = ret.value[j].mmi_int
           /\ ret.value[i].population = ret.value[j].population
           /\ StrLess(ret.value[i].name, ret.value[j].name)
           /\ ret.value[j].id < ret.value[i].id

(***************************************************************************)
(* Claims about clip_layers                                                *)
(***************************************************************************)
Clipped == clip # NoClip
HazardCell == The(clip).hazard_layer.cell_size
ExposureCell == The(clip).exposure_layer.cell_size
ChosenCell == The(clip).clipped_exposure.cell_size
Resolution == The(clip).clipped_exposure.extra_keywords.resolution

\* the two sizes differ by no more than 1e-8 + 1e-5 * abs(b) degree
WithinTolerance(a, b) ==
    LET tolerance == 1 + (IF b < 0 THEN -b ELSE b) \div 100000
    IN  a - b \in (-tolerance)..tolerance

\* C18 as claimed: the common cell size is the smaller of the two layers'
\* cell sizes, and the exposure layer's resolution is recorded as an extra
\* keyword exactly when the chosen cell size differs from it.
C18_ResolutionRecordedWhenDifferent ==
    Clipped =>
        /\ ChosenCell = Min(HazardCell, ExposureCell)
        /\ The(clip).clipped_hazard.cell_size = ChosenCell
        /\ IF ChosenCell # ExposureCell
           THEN Resolution = Some(ExposureCell)
           ELSE Resolution = None

\* C18 as amended: the common cell size is the smaller of the two layers'
\* cell sizes, and the exposure layer's resolution is recorded exactly when
\* the chosen cell size is not within numpy.allclose's tolerance of it.
C18_ResolutionRecordedWhenNotClose ==
    Clipped =>
        /\ ChosenCell = Min(HazardCell, ExposureCell)
        /\ The(clip).clipped_hazard.cell_size = ChosenCell
        /\ IF ~ WithinTolerance(ChosenCell, ExposureCell)
           THEN Resolution = Some(ExposureCell)
           ELSE Resolution = None

\* a hazard layer whose cells are finer than the exposure layer's by less
\* than the tolerance: its cell size is chosen and no resolution is recorded
C18_Witness ==
    /\ Clipped
    /\ HazardCell < ExposureCell
    /\ ChosenCell = HazardCell
    /\ WithinTolerance(ChosenCell, ExposureCell)
    /\ Resolution = None

\* C19: clip_layers clips the hazard layer and the exposure layer to one
\* extent, the hazard layer's, and to one cell size, whatever the exposure
\* layer covers, and does not raise.
C19_BothClippedToHazardExtent ==
    Clipped =>
        LET c == The(clip)
            hazard_extent == c.hazard_layer.extent
        IN  /\ c.raised = NoError
            /\ c.clipped_hazard.source = c.hazard_layer
            /\ c.clipped_exposure.source = c.exposure_layer
            /\ c.clipped_hazard.extent = c.clipped_exposure.extent
            /\ c.clipped_exposure.extent
                   = <<hazard_extent.xmin, hazard_extent.ymin,
                       hazard_extent.xmax, hazard_extent.ymax>>
            /\ c.clipped_hazard.cell_size = c.clipped_exposure.cell_size

\* a clipping with an exposure layer that lies apart from the hazard layer
C19_Witness ==
    /\ Clipped
    /\ The(clip).raised = NoError
    /\ \/ The(clip).exposure_layer.extent.xmin
              > The(clip).hazard_layer.extent.xmax
       \/ The(clip).exposure_layer.extent.xmax
              < The(clip).hazard_layer.extent.xmin

(***************************************************************************)
(* Claims about the samples of grid_data                                   *)
(***************************************************************************)
\* the line lacks its longitude, latitude or intensity token, or has one
\* that is no number
BadSampleLine(tokens) ==
    /\ tokens # <<>>
    /\ \/ Len(tokens) < 5
       \/ \E column \in {1, 2, 5} : tokens[column].kind # "num"

\* every component of every sample is a number
NumericSamples(mmi_data) ==
    \A i \in 1..Len(mmi_data) :
        \A column \in 1..3 : mmi_data[i][column].kind = "num"

\* C20: a constructor call on a document with a data line that lacks its
\* longitude, latitude or intensity token, or has one that is no number,
\* raises GridXmlParseError; no sample with a component that is no number is
\* in the mmi_data of an instance or of an event a caller holds.
C20_BadSampleRaises ==
    /\ (document # None
          /\ \E i \in 1..Len(The(document).lines) :
                 BadSampleLine(The(document).lines[i])
          /\ ~ MissingRequired(The(document))) =>
           raised = GridXmlParseError
    /\ instance.mmi_data # None => NumericSamples(The(instance.mmi_data))
    /\ event # None => NumericSamples(The(The(event).fields.mmi_data))

\* the grid_data lines that are not empty
NonEmptyLines(doc) == SelectSeq(doc.lines, LAMBDA tokens : tokens # <<>>)

\* C21: the mmi_data of every event a caller holds has rows x columns
\* samples, one per non-empty line of grid_data and in their order, and the
\* delimited text made from it has that many lines after its one header
\* line.
C21_SampleCountIsRowsTimesColumns ==
    event # None =>
        LET fields   == The(event).fields
            mmi_data == The(fields.mmi_data)
            lines    == NonEmptyLines(The(event).grid)
            text     == mmi_data_to_delimited_text(mmi_data)
        IN  /\ Len(mmi_data) = The(fields.rows) * The(fields.columns)
            /\ Len(mmi_data) = Len(lines)
            /\ \A i \in 1..Len(lines) :
                   mmi_data[i] = <<lines[i][1], lines[i][2], lines[i][5]>>
            /\ text[1] = <<"lon", "lat", "mmi">>
            /\ Len(text) = 1 + The(fields.rows) * The(fields.columns)
            /\ \A i \in 1..Len(mmi_data) : text[i + 1] # text[1]

\* C22: every sample of an event a caller holds carries the values of the
\* columns its document declares as LON, LAT and MMI, in whatever order the
\* document declares its columns.
C22_ColumnsLocatedByName ==
    event # None =>
        LET grid     == The(event).grid
            mmi_data == The(The(event).fields.mmi_data)
            lines    == NonEmptyLines(grid)
        IN  \A i \in 1..Len(mmi_data) :
                mmi_data[i] = <<lines[i][ColumnOf(grid.grid_field, "LON")],
                                lines[i][ColumnOf(grid.grid_field, "LAT")],
                                lines[i][ColumnOf(grid.grid_field, "MMI")]>>

(***************************************************************************)
(* Claims about the artifacts of the two algorithms                        *)
(***************************************************************************)
\* the raster and contour files of an algorithm
RasterFiles(algorithm) ==
    {File(name, algorithm) :
        name \in {"mmi-%s.tif", "mmi-%s.keywords", "mmi-%s.qml"}}

KeyedFiles(algorithm) ==
    RasterFiles(algorithm)
    \cup {File(name, algorithm) :
              name \in {"mmi-contours-%s.shp", "mmi-contours-%s.shx",
                        "mmi-contours-%s.dbf", "mmi-contours-%s.prj",
                        "mmi-contours-%s.qml"}}

\* C23: a call of mmi_data_to_raster or mmi_data_to_contours for an
\* algorithm, forced or not, raising or not, leaves every raster and contour
\* file of the other algorithm as it was: none is made, written or removed.
C23_OtherAlgorithmUntouched ==
    call.op \in {"mmi_data_to_raster", "mmi_data_to_contours"} =>
        \A other \in Algorithms \ {call.algorithm} :
            \A f \in KeyedFiles(other) : fs[f] = call.before.fs[f]

\* a forced contouring that failed for one algorithm, next to the contours
\* of the other algorithm made by the call before
C23_Witness ==
    /\ call.op = "mmi_data_to_contours"
    /\ call.force_flag
    /\ call.raised = ContourCreationError
    /\ \E other \in Algorithms \ {call.algorithm} :
           /\ Exists(fs, File("mmi-contours-%s.shp", other))
           /\ Exists(fs, File("mmi-%s.tif", other))
           /\ fs[File("mmi-contours-%s.shp", other)].at < call.now
    /\ fs # call.before.fs

\* the contour dataset of the last call's algorithm
ContourShp == File("mmi-contours-%s.shp", call.algorithm)
ForcedOverExisting ==
    /\ call.op = "mmi_data_to_contours" /\ call.force_flag
    /\ Exists(call.before.fs, ContourShp)

\* C24: a forced mmi_data_to_contours over an existing contour shapefile
\* replaces the old shp, shx, dbf and prj by new ones, and does so even when
\* deleting an old file fails: whenever the intensity raster is there to be
\* contoured the call raises nothing and leaves a dataset written by this
\* call; a call without force over an existing shapefile changes no file.
C24_ForcedContoursRegenerated ==
    /\ ForcedOverExisting /\ Exists(fs, File("mmi-%s.tif", call.algorithm)) =>
           /\ call.raised = NoError
           /\ \A k \in 1..Len(ContourParts) :
                  fs[File(ContourParts[k], call.algorithm)].at = call.now
    /\ (/\ call.op = "mmi_data_to_contours" /\ ~ call.force_flag
        /\ Exists(call.before.fs, ContourShp)) =>
           fs = call.before.fs /\ call.raised = NoError

\* the Roman numeral of a number from 1 to 39, by tens and units
UnitNumerals ==
    << <<73>>, <<73, 73>>, <<73, 73, 73>>, <<73, 86>>, <<86>>, <<86, 73>>,
       <<86, 73, 73>>, <<86, 73, 73, 73>>, <<73, 88>> >>
RomanNumeral(n) ==
    [i \in 1..(n \div 10) |-> 88]
    \o (IF n % 10 = 0 THEN <<>> ELSE UnitNumerals[n % 10])

Labelled == contour_layer # NoLayer /\ The(contour_layer).raised = NoError
LabelledFeatures ==
    {The(contour_layer).features[i] :
        i \in 1..Len(The(contour_layer).features)}

\* C25: after set_contour_properties, every feature it labelled whose level
\* is a whole number from 1 to 12 carries that number's Roman numeral, every
\* feature whose level is a half-integer carries the empty string, and so a
\* non-empty label is only on a whole-number level.
C25_RomanLabelOnlyOnWholeLevels ==
    Labelled =>
        \A f \in LabelledFeatures :
            f.valid =>
                /\ f.mmi10 % 10 = 0 /\ f.mmi10 \in 10..120 =>
                       f.roman = Some(RomanNumeral(f.mmi10 \div 10))
                /\ f.mmi10 % 10 = 5 => f.roman = Some(<<>>)
                /\ f.roman \notin {None, Some(<<>>)} => f.mmi10 % 10 = 0

C25_Witness ==
    /\ Labelled
    /\ \E f, g \in LabelledFeatures :
           /\ f.valid /\ f.mmi10 = 120 /\ f.roman = Some(<<88, 73, 73>>)
           /\ g.valid /\ g.mmi10 = 75 /\ g.roman = Some(<<>>)

\* the last call went through mmi_data_to_vrt: it was that call, or a call
\* of mmi_data_to_shapefile or mmi_data_to_raster that did not return its
\* own cached file
WentThroughVrt ==
    \/ call.op = "mmi_data_to_vrt"
    \/ /\ call.op = "mmi_data_to_shapefile"
       /\ ~ (Exists(call.before.fs, Plain("mmi-points.shp"))
             /\ ~ call.force_flag)
    \/ /\ call.op = "mmi_data_to_raster"
       /\ ~ (Exists(call.before.fs, File("mmi-%s.tif", call.algorithm))
             /\ ~ call.force_flag)

\* C26: whenever mmi_data_to_vrt has returned the vrt path, directly or
\* inside mmi_data_to_shapefile or mmi_data_to_raster, mmi.csv is in the
\* directory, whatever the force flag and the files that were there before.
C26_VrtReturnedImpliesCsv ==
    WentThroughVrt /\ call.raised = NoError => Exists(fs, Plain("mmi.csv"))

SixFields ==
    {"impact_file", "impact_keywords_file", "fatality_counts",
     "fatality_total", "displaced_counts", "affected_counts"}

\* C27: a calculate_impacts that raises leaves the six impact fields of the
\* event as they were before the call; one that returns has set the six
\* together, the files for the call's algorithm and the four values from the
\* one result.
C27_ImpactFieldsAllOrNothing ==
    call.op = "calculate_impacts" =>
        IF call.raised # NoError
        THEN \A field \in SixFields : impact[field] = call.before.impact[field]
        ELSE /\ impact.impact_file = Some(File("impact-%s.tif", call.algorithm))
             /\ impact.impact_keywords_file =
                    Some(File("impact-%s.keywords", call.algorithm))
             /\ impact.fatality_counts = call.env.result.fatalites_per_mmi
             /\ impact.fatality_total = call.env.result.total_fatalities
             /\ impact.displaced_counts = call.env.result.displaced_per_mmi
             /\ impact.affected_counts = call.env.result.exposed_per_mmi

DictReturned == call.op = "eventDict" /\ call.returned # None

\* C28: the dict that eventDict returns names the most affected city whenever
\* the event has one when the call ends, also when the call itself ran the
\* ranking that found it: place-name, distance and bearing are the city's.
C28_DictNamesMostAffectedCity ==
    DictReturned /\ most_affected_city # None =>
        /\ The(call.returned).place_name = The(most_affected_city).name
        /\ The(call.returned).distance = The(most_affected_city).dist_to
        /\ The(call.returned).direction = The(most_affected_city).dir_to
        /\ The(call.returned).bearing =
               bearingToCardinal(The(most_affected_city).dir_to)

PowerOfTen(k) == IF k = 2 THEN 100 ELSE IF k = 3 THEN 1000
                 ELSE IF k = 4 THEN 10000 ELSE IF k = 5 THEN 100000
                 ELSE IF k = 6 THEN 1000000 ELSE IF k = 7 THEN 10000000
                 ELSE 100000000
DecadeRanges ==
    {<<0, 100>>} \cup {<<PowerOfTen(k), PowerOfTen(k + 1)>> : k \in 2..7}

\* C30: the fatalities range of the dict is one of 0-100, 100-1000,
\* 1000-10000 and so on, and holds the fatality total: the total is at most
\* the upper limit and, when above 100, above the lower limit.
C30_FatalitiesRangeIsDecade ==
    DictReturned =>
        LET range == The(call.returned).fatalities_range
            count == The(call.returned).fatalities_count
        IN  /\ range \in DecadeRanges
            /\ count <= range[2]
            /\ count > 100 => range[1] < count

PushDone == The(push).done

\* C29: a push with fail_silent raises nothing, whatever the requests and
\* the report files do; a push without fail_silent in which the final status
\* of an exchange is neither ok nor created raises RESTRequestFailedError;
\* a push by a client that is not configured sends no request.
C29_FailSilentDecidesWhatIsRaised ==
    push # NoPush =>
        /\ ~ The(push).configured =>
               PushDone.requests = <<>> /\ PushDone.raised = NoError
        /\ The(push).configured /\ The(push).fail_silent =>
               PushDone.raised = NoError
        /\ (/\ The(push).configured /\ ~ The(push).fail_silent
            /\ \E i \in 1..Len(PushDone.finals) :
                   PushDone.finals[i] \notin {Status_ok, Status_created}) =>
               PushDone.raised = RESTRequestFailedError

====
